---- MODULE Spec2Model ----
(***************************************************************************)
(* A model of flash's documentation tree: the construction of the         *)
(* namespace tree from the AST (builder/namespace.rs), the URL and name    *)
(* resolution of entities (builder/traits.rs), the cross references and    *)
(* the autolinks (builder/shared.rs), and the render tasks.                *)
(*                                                                         *)
(* Strings are sequences of one-character strings, so that prefix,        *)
(* substring and case tests are computed as the code computes them.        *)
(* An absent value (Option::None) is the empty sequence <<>>, a present    *)
(* one (Some(v)) is <<v>>; an absent name is the empty string, as in       *)
(* clang, whose get_name yields None for an empty spelling.                *)
(***************************************************************************)
EXTENDS Integers, Sequences, FiniteSets, TLC

VARIABLES
    phase,    \* "load": load_entries is running; "done": new_root has returned
    stack,    \* the namespaces under construction, the root first
    count,    \* the number of AST children visited so far
    merged,   \* the last call of merge_with_namespace: <<[self, other, result]>>
    cleaned,  \* the tree handed to clean_empty_namespaces: <<root>>
    out,      \* the result of the last query on the finished tree
    links,    \* the run of fmt_autolinks on a prose: <<its state>>
    build     \* the run of the render of the tree: <<its state>>

vars == <<phase, stack, count, merged, cleaned, out, links, build>>

\* the variables of the construction of the tree
treeVars == <<phase, stack, count, merged, cleaned>>

-----------------------------------------------------------------------------
(* Bounds of the model.                                                    *)

\* the number of AST children (declarations) one run visits
MaxDecls == 6
\* the depth of nested namespaces below the root
MaxDepth == 2
\* the number of AST children one run visits before the tree is queried
MaxQueryDecls == 4
\* the number of AST children one run visits before a prose is linked
MaxLinkDecls == 3
\* the number of word-tokens of a prose
MaxWords == 2
\* the number of AST children one run visits before the tree is rendered
MaxBuildDecls == 4
\* the number of semantic parents of an entity whose name is asked for
MaxChain == 4
\* the number of declarations of the trees of the two-fragment scenario
MaxScenarioDecls == 4
\* the number of children load_entries visits in the trees whose every
\* iteration is looked at
MaxLoadDecls == 3

\* the texts fmt_emoji is given have at most this many characters
MaxEmojiText == 5

-----------------------------------------------------------------------------
(* Strings.                                                                *)

None == <<>>
Some(v) == <<v>>
IsSome(o) == o # <<>>
Unwrap(o) == o[1]

Lower == {"a", "b", "c", "d", "e", "f", "g", "h", "i", "j", "k", "l", "m",
          "n", "o", "p", "q", "r", "s", "t", "u", "v", "w", "x", "y", "z"}

\* char::is_lowercase
IsLowercase(c) == c \in Lower

StartsWith(s, p) == Len(p) <= Len(s) /\ SubSeq(s, 1, Len(p)) = p

EndsWith(s, p) ==
    Len(p) <= Len(s) /\ SubSeq(s, Len(s) - Len(p) + 1, Len(s)) = p

\* str::contains
Contains(s, p) ==
    \E i \in 0..(Len(s) - Len(p)) : SubSeq(s, i + 1, i + Len(p)) = p

RECURSIVE Join(_, _)
\* [String]::join
Join(segs, sep) ==
    IF segs = <<>> THEN <<>>
    ELSE IF Len(segs) = 1 THEN segs[1]
    ELSE segs[1] \o sep \o Join(Tail(segs), sep)

\* the characters of the model, in the order of their codes
Chars ==
    <<" ", "(", ")", ".", "/", ":", "<", ">",
      "A", "B", "C", "D", "E", "F", "G", "H", "I", "J", "K", "L", "M",
      "N", "O", "P", "Q", "R", "S", "T", "U", "V", "W", "X", "Y", "Z",
      "[", "]", "_",
      "a", "b", "c", "d", "e", "f", "g", "h", "i", "j", "k", "l", "m",
      "n", "o", "p", "q", "r", "s", "t", "u", "v", "w", "x", "y", "z">>

CharCode(c) == CHOOSE i \in 1..Len(Chars) : Chars[i] = c

RECURSIVE StrLess(_, _)
\* a < b for two Strings
StrLess(a, b) ==
    IF b = <<>> THEN FALSE
    ELSE IF a = <<>> THEN TRUE
    ELSE IF Head(a) = Head(b) THEN StrLess(Tail(a), Tail(b))
    ELSE CharCode(Head(a)) < CharCode(Head(b))

RECURSIVE SetToSeq(_)
\* the elements of a set in some order: the order in which a HashMap yields
\* its keys is not specified
SetToSeq(S) ==
    IF S = {} THEN <<>>
    ELSE LET x == CHOOSE x \in S : TRUE
         IN  <<x>> \o SetToSeq(S \ {x})

RECURSIVE Concat(_)
\* the concatenation of a sequence of sequences
Concat(seqs) ==
    IF seqs = <<>> THEN <<>> ELSE Head(seqs) \o Concat(Tail(seqs))

ColonColon == <<":", ":">>
sStd == <<"s", "t", "d">>
sStdColons == <<"s", "t", "d", ":", ":">>
sAnon == <<"_", "a", "n", "o", "n">>
sDotCpp == <<".", "c", "p", "p">>
sAnonymousNamespace ==
    <<"<", "A", "n", "o", "n", "y", "m", "o", "u", "s", " ", "n", "a", "m",
      "e", "s", "p", "a", "c", "e", ">">>
sDeductionGuideFor ==
    <<"d", "e", "d", "u", "c", "t", "i", "o", "n", " ", "g", "u", "i", "d",
      "e", " ", "f", "o", "r">>
sUnnamed == <<"u", "n", "n", "a", "m", "e", "d", " ">>
WeirdFirstChars == {"(", ")", "<", ">", "[", "]"}

\* the names the declarations of the model carry
nNs == <<"n", "s">>
nIn == <<"i", "n">>
nWidget == <<"W", "i", "d", "g", "e", "t">>
nGadget == <<"G", "a", "d", "g", "e", "t">>
nwidget == <<"w", "i", "d", "g", "e", "t">>
nF == <<"f">>
nSee == <<"S", "e", "e">>
nTU == <<"a", ".", "h">>
nString == <<"s", "t", "r">>

\* file paths
pProject == <<"/", "p", "/", "a", ".", "h">>
pStdHeader == <<"/", "s", "/", "v", "e", "c">>
pDotDot == <<"/", "s", "/", ".", ".">>
\* headers below the directories of the external libraries
pLibE == <<"/", "e", "/", "a", ".", "h">>
pLibG == <<"/", "g", "/", "a", ".", "h">>
pLibGE == <<"/", "g", "/", "e", "/", "a", ".", "h">>

-----------------------------------------------------------------------------
(* Entities: clang cursors.  An entity is a record                         *)
(*   id       the cursor's identity: the position of its declaration       *)
(*   kind     its EntityKind                                               *)
(*   name     get_name(): the simple name, "" when it has none             *)
(*   sem      the chain of its semantic parents, the nearest first, each   *)
(*            a record [kind, name]; the translation unit ends the chain   *)
(*   def      is_definition()                                              *)
(*   sys      is_in_system_header()                                        *)
(*   file     the path of the file of get_location(), None when unknown    *)
(*   defFile  the path definition_file() finds, None when unknown          *)
(*   sig      what tells overloads of one name apart in the USR            *)
(*   members  the children of a class: [kind, access, virtual, decl], decl *)
(*            being the declaration of the child's type, when it has one   *)
(***************************************************************************)

UnexposedKinds ==
    {"TranslationUnit", "UnexposedDecl", "UnexposedAttr", "UnexposedExpr",
     "UnexposedStmt"}

\* CppItemKind::from
CppItemKindFrom(kind) ==
    CASE kind = "StructDecl" -> Some("Struct")
      [] kind \in {"ClassDecl", "ClassTemplate",
                   "ClassTemplatePartialSpecialization"} -> Some("Class")
      [] kind \in {"FunctionDecl", "FunctionTemplate"} -> Some("Function")
      [] kind = "Namespace" -> Some("Namespace")
      [] OTHER -> None

sNamespaces == <<"n", "a", "m", "e", "s", "p", "a", "c", "e", "s">>
sClasses == <<"c", "l", "a", "s", "s", "e", "s">>
sFunctions == <<"f", "u", "n", "c", "t", "i", "o", "n", "s">>

\* a docs_category with a segment of its own for the structs
DocsCategoryPerKind(itemKind) ==
    CASE itemKind = "Namespace" -> sNamespaces
      [] itemKind = "Class" -> sClasses
      [] itemKind = "Struct" -> <<"s", "t", "r", "u", "c", "t", "s">>
      [] itemKind = "Function" -> sFunctions

\* CppItemKind::docs_category
DocsCategory(itemKind) ==
    CASE itemKind = "Namespace" -> sNamespaces
      [] itemKind = "Class" -> sClasses
      [] itemKind = "Struct" -> sClasses
      [] itemKind = "Function" -> sFunctions

\* an entity as an element of an ancestor chain
Link(e) == [kind |-> e.kind, name |-> e.name]

\* a filter that drops every ancestor without a name
DropNoName(chain) ==
    SelectSeq(chain, LAMBDA link : link.name # <<>>)

RECURSIVE SkipWhileNoName(_)
\* .skip_while(|e| e.get_name().is_none())
SkipWhileNoName(chain) ==
    IF chain # <<>> /\ Head(chain).name = <<>>
    THEN SkipWhileNoName(Tail(chain))
    ELSE chain

RECURSIVE AncestorageOf(_, _)
\* EntityMethods::ancestorage of the entity `self`, whose semantic parents are
\* `chain`
AncestorageOf(self, chain) ==
    LET ancestors ==
            IF /\ chain # <<>>
               /\ ~EndsWith(Head(chain).name, sDotCpp)
               /\ Head(chain).kind \notin UnexposedKinds
            THEN AncestorageOf(Head(chain), Tail(chain))
            ELSE <<>>
    IN  SkipWhileNoName(ancestors) \o <<self>>

Ancestorage(e) == AncestorageOf(Link(e), e.sem)

\* EntityMethods::full_name
FullName(e) ==
    LET a == Ancestorage(e)
    IN  [i \in 1..Len(a) |-> IF a[i].name = <<>> THEN sAnon ELSE a[i].name]

-----------------------------------------------------------------------------
(* URLs.  A UrlPath is a record [absolute, segs]: its segments in order,   *)
(* and whether it is absolute.                                             *)

\* the configuration: the base of the generated site, the ignore patterns
\* (each a literal text, matched anywhere as Regex::is_match does) and the
\* external libraries
Config ==
    [output_url |-> << <<"d", "o", "c", "s">> >>,
     ignore |-> Some([patterns_full |-> << <<"n", "s", ":", ":", "x">> >>,
                      patterns_name |-> << <<"_", "i">> >>]),
     external_libs |-> << [pattern |-> <<"/", "e", "/">>,
                           repository |-> <<"r", "e", "p", "o">>],
                          [pattern |-> <<"/", "g", "/">>,
                           repository |-> <<"g", "i", "t">>] >>]

RECURSIVE SplitAcc(_, _, _)
SplitAcc(s, sep, cur) ==
    IF s = <<>> THEN <<cur>>
    ELSE IF Head(s) = sep THEN <<cur>> \o SplitAcc(Tail(s), sep, <<>>)
    ELSE SplitAcc(Tail(s), sep, Append(cur, Head(s)))

\* str::split on one character
Split(s, sep) == SplitAcc(s, sep, <<>>)

RECURSIVE NonEmpty(_)
NonEmpty(segs) ==
    IF segs = <<>> THEN <<>>
    ELSE IF Head(segs) = <<>> THEN NonEmpty(Tail(segs))
    ELSE <<Head(segs)>> \o NonEmpty(Tail(segs))

\* UrlPath::new_with_path
UrlNewWithPath(segs) == [absolute |-> FALSE, segs |-> segs]

\* UrlPath::part
UrlPart(seg) == [absolute |-> FALSE, segs |-> <<seg>>]

\* UrlPath::join
UrlJoin(a, b) == [absolute |-> a.absolute, segs |-> a.segs \o b.segs]

\* UrlPath::to_absolute: the path joined onto the base of the generated site
UrlToAbsolute(url, config) ==
    [absolute |-> TRUE, segs |-> config.output_url \o url.segs]

\* UrlPath::parse(..).ok(): the segments between the slashes, none of them
\* empty; no path without segments
UrlParse(s) ==
    LET segs == NonEmpty(Split(s, "/"))
    IN  IF segs = <<>> THEN None
        ELSE Some([absolute |-> StartsWith(s, <<"/">>), segs |-> segs])

\* the Display of a UrlPath: its segments, a slash between them and, on an
\* absolute path, before them
UrlDisplay(url) ==
    (IF url.absolute THEN <<"/">> ELSE <<>>) \o Join(url.segs, <<"/">>)

sCppReference ==
    <<"e", "n", ".", "c", "p", "p", "r", "e", "f", "e", "r", "e", "n", "c",
      "e", ".", "c", "o", "m", "/", "w", "/", "c", "p", "p", "/">>
sDotDot == <<".", ".">>

\* Path::file_name: the last component of the path, None when the path has
\* none or ends in ".."
PathFileName(path) ==
    LET comps == NonEmpty(Split(path, "/"))
    IN  IF comps = <<>> \/ comps[Len(comps)] = sDotDot THEN None
        ELSE Some(comps[Len(comps)])

\* EntityMethods::rel_docs_url
RelDocsUrl(e) ==
    LET kind == CppItemKindFrom(e.kind)
    IN  IF kind = None THEN None
        ELSE Some(UrlJoin(UrlPart(DocsCategory(Unwrap(kind))),
                          UrlNewWithPath(FullName(e))))

\* the test of abs_docs_url and github_url: full_name().first() == "std"
IsStdItem(e) == FullName(e)[1] = sStd

\* an abs_docs_url without the redirect of the std items
AbsDocsUrlLocalOnly(e, config) ==
    IF RelDocsUrl(e) = None THEN None
    ELSE Some(UrlToAbsolute(Unwrap(RelDocsUrl(e)), config))

\* EntityMethods::abs_docs_url
AbsDocsUrl(e, config) ==
    IF IsStdItem(e)
    THEN IF e.defFile = None \/ PathFileName(Unwrap(e.defFile)) = None
            \/ e.name = <<>>
         THEN None
         ELSE UrlParse(sCppReference
                       \o Unwrap(PathFileName(Unwrap(e.defFile)))
                       \o <<"/">> \o e.name)
    ELSE IF RelDocsUrl(e) = None THEN None
         ELSE Some(UrlToAbsolute(Unwrap(RelDocsUrl(e)), config))
-----------------------------------------------------------------------------
(* The items of the tree.  A CppItem is a record [kind, ent, is_root,      *)
(* entries]: kind is "Namespace", "Class", "Struct" or "Function", ent its *)
(* entity, entries the HashMap of a Namespace (a function from the keys to *)
(* the items), empty for the other kinds.                                  *)

NoEntries == <<>>

NamespaceItem(ent, is_root, entries) ==
    [kind |-> "Namespace", ent |-> ent, is_root |-> is_root,
     entries |-> entries]

\* Class::new, Struct::new, Function::new
LeafItem(kind, ent) ==
    [kind |-> kind, ent |-> ent, is_root |-> FALSE, entries |-> NoEntries]

\* Entry::name of a CppItem
\* a name that is that of the anonymous namespace for every namespace
ItemNameAnonymous(item) ==
    IF item.kind = "Namespace" THEN sAnonymousNamespace ELSE item.ent.name

ItemName(item) ==
    IF item.kind = "Namespace" /\ item.ent.name = <<>>
    THEN sAnonymousNamespace
    ELSE item.ent.name

\* HashMap::insert
Insert(entries, key, item) ==
    [k \in DOMAIN entries \cup {key} |-> IF k = key THEN item ELSE entries[k]]

\* HashMap::remove of a set of keys
Remove(entries, keys) == [k \in DOMAIN entries \ keys |-> entries[k]]

RECURSIVE MergeAssertOk(_, _)
\* the assert_eq! of merge_with_namespace holds in this call and in every
\* call it makes
MergeAssertOk(self, other) ==
    /\ self.ent.name = other.ent.name
    /\ \A k \in DOMAIN other.entries \cap DOMAIN self.entries :
          (other.entries[k].kind = "Namespace"
             /\ self.entries[k].kind = "Namespace")
          => MergeAssertOk(self.entries[k], other.entries[k])

RECURSIVE MergeKeepsEarlier(_, _)
\* a merge that keeps the entry of self under a key both hold
MergeKeepsEarlier(self, other) ==
    [self EXCEPT !.entries =
        [k \in DOMAIN self.entries \cup DOMAIN other.entries |->
            IF k \notin DOMAIN other.entries THEN self.entries[k]
            ELSE IF k \notin DOMAIN self.entries THEN other.entries[k]
            ELSE IF /\ other.entries[k].kind = "Namespace"
                    /\ self.entries[k].kind = "Namespace"
                 THEN MergeKeepsEarlier(self.entries[k], other.entries[k])
                 ELSE self.entries[k]]]

\* a merge that replaces a nested namespace instead of merging into it
MergeShallow(self, other) ==
    [self EXCEPT !.entries =
        [k \in DOMAIN self.entries \cup DOMAIN other.entries |->
            IF k \notin DOMAIN other.entries THEN self.entries[k]
            ELSE other.entries[k]]]

\* a merge that leaves self with the entries of other alone
MergeTakesOther(self, other) == [self EXCEPT !.entries = other.entries]

RECURSIVE MergeWithNamespace(_, _)
\* Namespace::merge_with_namespace: self after the call
MergeWithNamespace(self, other) ==
    [self EXCEPT !.entries =
        [k \in DOMAIN self.entries \cup DOMAIN other.entries |->
            IF k \notin DOMAIN other.entries THEN self.entries[k]
            ELSE IF /\ other.entries[k].kind = "Namespace"
                    /\ k \in DOMAIN self.entries
                    /\ self.entries[k].kind = "Namespace"
                 THEN MergeWithNamespace(self.entries[k], other.entries[k])
                 ELSE other.entries[k]]]

\* a cleanup that tests whether a namespace is empty before its children
\* are cleaned, and does not clean them
CleanWithoutRecursion(self) ==
    [self EXCEPT !.entries =
        Remove(self.entries,
               {k \in DOMAIN self.entries :
                   /\ self.entries[k].kind = "Namespace"
                   /\ DOMAIN self.entries[k].entries = {}})]

RECURSIVE CleanEmptyNamespaces(_)
\* Namespace::clean_empty_namespaces: self after the call
CleanEmptyNamespaces(self) ==
    LET kids == [k \in DOMAIN self.entries |->
                    IF self.entries[k].kind = "Namespace"
                    THEN CleanEmptyNamespaces(self.entries[k])
                    ELSE self.entries[k]]
        remove == {k \in DOMAIN kids :
                      kids[k].kind = "Namespace" /\ DOMAIN kids[k].entries = {}}
    IN  [self EXCEPT !.entries = Remove(kids, remove)]

\* Entry::url of a CppItem: the URL the item is rendered to
ItemUrl(item) ==
    IF item.is_root THEN UrlNewWithPath(<<>>)
    ELSE Unwrap(RelDocsUrl(item.ent))

\* ASTEntry::category of a CppItem
Category(item) ==
    CASE item.kind = "Namespace" -> "namespace"
      [] item.kind = "Class" -> "class"
      [] item.kind = "Struct" -> "struct"
      [] item.kind = "Function" -> "function"

\* HashMap::values, in some order
Values(entries) ==
    LET keys == SetToSeq(DOMAIN entries)
    IN  [i \in 1..Len(keys) |-> entries[keys[i]]]

RECURSIVE ItemGetStopsAtMatch(_, _)
\* a get that does not descend into a namespace the matcher accepts
ItemGetStopsAtMatch(item, cats) ==
    IF Category(item) \in cats THEN <<item>>
    ELSE IF item.kind = "Namespace"
    THEN LET vals == Values(item.entries)
         IN  Concat([i \in 1..Len(vals) |->
                        ItemGetStopsAtMatch(vals[i], cats)])
    ELSE <<>>

RECURSIVE ItemGet(_, _)
\* CppItem::get: what it pushes to `out`; the matcher accepts the items
\* whose category is in `cats`
ItemGet(item, cats) ==
    (IF Category(item) \in cats THEN <<item>> ELSE <<>>)
    \o (IF item.kind = "Namespace"
        THEN LET vals == Values(item.entries)
             IN  Concat([i \in 1..Len(vals) |-> ItemGet(vals[i], cats)])
        ELSE <<>>)

\* a get that does not descend into the namespaces
GetWithoutRecursion(ns, cats) ==
    LET vals == Values(ns.entries)
    IN  Concat([i \in 1..Len(vals) |->
                   IF Category(vals[i]) \in cats THEN <<vals[i]>> ELSE <<>>])

\* Namespace::get
NamespaceGet(ns, cats) ==
    LET vals == Values(ns.entries)
    IN  Concat([i \in 1..Len(vals) |-> ItemGet(vals[i], cats)])

\* get_all_classes
GetAllClasses(ns) == NamespaceGet(ns, {"class", "struct"})

\* Entity::get_usr: the symbol's id, one for all the declarations of a
\* symbol: its kind, its qualified name and, for a function, its signature
Usr(e) ==
    <<IF e.kind \in {"FunctionDecl", "FunctionTemplate"} THEN "F"
      ELSE IF e.kind = "Namespace" THEN "N" ELSE "S",
      [i \in 1..Len(e.sem) |-> e.sem[i].name], e.name, e.sig>>

RECURSIVE InsertSorted(_, _)
InsertSorted(sorted, item) ==
    IF sorted = <<>> THEN <<item>>
    ELSE IF StrLess(item.ent.name, Head(sorted).ent.name)
         THEN <<item>> \o sorted
         ELSE <<Head(sorted)>> \o InsertSorted(Tail(sorted), item)

RECURSIVE SortByName(_)
\* sort_by_key(|d| d.entity().get_name()): a stable sort
SortByName(items) ==
    IF items = <<>> THEN <<>>
    ELSE InsertSorted(SortByName(SubSeq(items, 1, Len(items) - 1)),
                      items[Len(items)])

\* a filter that counts the public, non-virtual bases only
IsPublicDerivedFrom(item, target) ==
    \E i \in 1..Len(item.ent.members) :
        LET child == item.ent.members[i]
        IN  /\ child.kind = "BaseSpecifier"
            /\ child.access = "public" /\ ~child.virtual
            /\ IsSome(child.decl)
            /\ Usr(Unwrap(child.decl)) = Usr(target.ent)

\* the filter of the "derived_classes" section
IsDerivedFrom(item, target) ==
    \E i \in 1..Len(item.ent.members) :
        LET child == item.ent.members[i]
        IN  /\ child.kind = "BaseSpecifier"
            /\ IsSome(child.decl)
            /\ Usr(Unwrap(child.decl)) = Usr(target.ent)

\* the "derived_classes" section of output_classlike for the entry
\* `target`: the derived classes, before each is formatted
DerivedClasses(root, target) ==
    LET all == GetAllClasses(root)
        hits == {i \in 1..Len(all) : IsDerivedFrom(all[i], target)}
        derived == [i \in 1..Cardinality(hits) |->
                       all[CHOOSE j \in hits :
                              Cardinality({h \in hits : h <= j}) = i]]
    IN  SortByName(derived)

-----------------------------------------------------------------------------
(* load_entries.                                                           *)

\* a search that yields the last configured library whose pattern matches
LastAllowedExternalLib(e, config) ==
    IF ~e.sys \/ e.file = None THEN None
    ELSE LET libs == config.external_libs
             hits == {i \in 1..Len(libs) :
                         Contains(Unwrap(e.file), libs[i].pattern)}
         IN  IF hits = {} THEN None
             ELSE Some(libs[CHOOSE i \in hits : \A j \in hits : i >= j])

\* EntityMethods::get_allowed_external_lib: the first configured library
\* whose pattern the path of the entity's file contains
GetAllowedExternalLib(e, config) ==
    IF ~e.sys \/ e.file = None THEN None
    ELSE LET libs == config.external_libs
             hits == {i \in 1..Len(libs) :
                         Contains(Unwrap(e.file), libs[i].pattern)}
         IN  IF hits = {} THEN None
             ELSE Some(libs[CHOOSE i \in hits : \A j \in hits : i <= j])

\* skips that consult the list of the patterns on the full name only
SkippedFullListOnly(child, config) ==
    LET full_child_name == Join(FullName(child), ColonColon)
    IN  \/ child.name = <<>>
        \/ child.sys /\ GetAllowedExternalLib(child, config) = None
        \/ StartsWith(full_child_name, sStdColons)
        \/ Contains(child.name, sDeductionGuideFor)
        \/ Contains(child.name, sUnnamed)
        \/ Head(child.name) \in WeirdFirstChars
        \/ /\ IsSome(config.ignore)
           /\ \E i \in 1..Len(Unwrap(config.ignore).patterns_full) :
                 Contains(full_child_name,
                          Unwrap(config.ignore).patterns_full[i])

\* skips without the test on the first character of the name
SkippedKeepsWeird(child, config) ==
    LET full_child_name == Join(FullName(child), ColonColon)
    IN  \/ child.name = <<>>
        \/ child.sys /\ GetAllowedExternalLib(child, config) = None
        \/ StartsWith(full_child_name, sStdColons)
        \/ Contains(child.name, sDeductionGuideFor)
        \/ Contains(child.name, sUnnamed)
        \/ /\ IsSome(config.ignore)
           /\ LET ignore == Unwrap(config.ignore)
              IN  \/ \E i \in 1..Len(ignore.patterns_full) :
                        Contains(full_child_name, ignore.patterns_full[i])
                  \/ \E i \in 1..Len(ignore.patterns_name) :
                        Contains(child.name, ignore.patterns_name[i])

\* the `continue`s of load_entries, before the child is classified
Skipped(child, config) ==
    LET full_child_name == Join(FullName(child), ColonColon)
    IN  \/ child.name = <<>>
        \/ child.sys /\ GetAllowedExternalLib(child, config) = None
        \/ StartsWith(full_child_name, sStdColons)
        \/ Contains(child.name, sDeductionGuideFor)
        \/ Contains(child.name, sUnnamed)
        \/ Head(child.name) \in WeirdFirstChars
        \/ /\ IsSome(config.ignore)
           /\ LET ignore == Unwrap(config.ignore)
              IN  \/ \E i \in 1..Len(ignore.patterns_full) :
                        Contains(full_child_name, ignore.patterns_full[i])
                  \/ \E i \in 1..Len(ignore.patterns_name) :
                        Contains(child.name, ignore.patterns_name[i])

\* the `continue` an iteration of load_entries takes on the child, "none"
\* when it takes none: the tests in the order of the code
SkipRule(child, config) ==
    LET full_child_name == Join(FullName(child), ColonColon)
        ignore == Unwrap(config.ignore)
    IN  IF child.name = <<>> THEN "unnamed"
        ELSE IF child.sys /\ GetAllowedExternalLib(child, config) = None
        THEN "external"
        ELSE IF \/ StartsWith(full_child_name, sStdColons)
                \/ Contains(child.name, sDeductionGuideFor)
                \/ Contains(child.name, sUnnamed)
        THEN "std"
        ELSE IF Head(child.name) \in WeirdFirstChars THEN "weird"
        ELSE IF /\ IsSome(config.ignore)
                /\ \E i \in 1..Len(ignore.patterns_full) :
                      Contains(full_child_name, ignore.patterns_full[i])
        THEN "patterns_full"
        ELSE IF /\ IsSome(config.ignore)
                /\ \E i \in 1..Len(ignore.patterns_name) :
                      Contains(child.name, ignore.patterns_name[i])
        THEN "patterns_name"
        ELSE "none"

\* arms that insert a function only under a key that is free
LoadedLeafKeepsPrior(entries, child, config) ==
    LET kind == CppItemKindFrom(child.kind)
    IN  IF Skipped(child, config) \/ kind = None THEN entries
        ELSE IF Unwrap(kind) \in {"Struct", "Class"}
             THEN IF child.def
                  THEN Insert(entries, child.name,
                              LeafItem(Unwrap(kind), child))
                  ELSE entries
             ELSE IF child.name \in DOMAIN entries THEN entries
                  ELSE Insert(entries, child.name,
                              LeafItem("Function", child))

\* arms in which a forward declaration removes the entry of its name
LoadedLeafForwardErases(entries, child, config) ==
    LET kind == CppItemKindFrom(child.kind)
    IN  IF Skipped(child, config) \/ kind = None THEN entries
        ELSE IF Unwrap(kind) \in {"Struct", "Class"}
             THEN IF child.def
                  THEN Insert(entries, child.name,
                              LeafItem(Unwrap(kind), child))
                  ELSE Remove(entries, {child.name})
             ELSE Insert(entries, child.name, LeafItem("Function", child))

\* the arms of load_entries for a child that is no namespace: the entries
\* after the iteration
LoadedLeaf(entries, child, config) ==
    LET kind == CppItemKindFrom(child.kind)
    IN  IF Skipped(child, config) \/ kind = None THEN entries
        ELSE IF Unwrap(kind) \in {"Struct", "Class"}
             THEN IF child.def
                  THEN Insert(entries, child.name,
                              LeafItem(Unwrap(kind), child))
                  ELSE entries
             ELSE Insert(entries, child.name, LeafItem("Function", child))

\* a Namespace arm that never merges
LoadedNamespaceInserts(entries, entry) ==
    Insert(entries, ItemName(entry), entry)

\* the Namespace arm of load_entries, once Namespace::new has returned
\* `entry`: the entries after the iteration
LoadedNamespace(entries, entry) ==
    LET key == ItemName(entry)
    IN  IF key \in DOMAIN entries /\ entries[key].kind = "Namespace"
        THEN Insert(entries, key, MergeWithNamespace(entries[key], entry))
        ELSE Insert(entries, key, entry)
-----------------------------------------------------------------------------
(* The items of a tree, by their paths.                                    *)

RECURSIVE Paths(_)
\* the paths of the items below `item`: the keys from `item` down to each
Paths(item) ==
    UNION {{<<k>>} \cup {<<k>> \o p : p \in Paths(item.entries[k])} :
           k \in DOMAIN item.entries}

RECURSIVE ItemAt(_, _)
ItemAt(item, path) ==
    IF path = <<>> THEN item
    ELSE ItemAt(item.entries[Head(path)], Tail(path))

Keys(item) == DOMAIN item.entries

BothNamespaces(a, b, k) ==
    /\ k \in Keys(a) /\ a.entries[k].kind = "Namespace"
    /\ k \in Keys(b) /\ b.entries[k].kind = "Namespace"

-----------------------------------------------------------------------------
(* The declarations the AST is made of.                                    *)

Entity(id, kind, name, sem, def, members, sig) ==
    [id |-> id, kind |-> kind, name |-> name, sem |-> sem, def |-> def,
     sys |-> FALSE, file |-> Some(pProject), defFile |-> Some(pProject),
     sig |-> sig, members |-> members]

\* the cursor of the translation unit, which new_root is given
TranslationUnit ==
    Entity(0, "TranslationUnit", nTU, <<>>, TRUE, <<>>, 0)

nsLink == [kind |-> "Namespace", name |-> nNs]
qLink == [kind |-> "Namespace", name |-> <<"q">>]

\* class Widget, as the type of a base or of a field declared in `chain`
WidgetDecl(chain) == Entity(0, "ClassDecl", nWidget, chain, TRUE, <<>>, 0)

Member(kind, access, virtual, decl) ==
    [kind |-> kind, access |-> access, virtual |-> virtual, decl |-> decl]

\* the children of the scope `chain` that are no named namespace, the
\* scope being `depth` levels below nothing (the root: 1)
LeafDecls(id, chain, depth) ==
    {Entity(id, "ClassDecl", nWidget, chain, TRUE, <<>>, 0),
     Entity(id, "ClassDecl", nWidget, chain, FALSE, <<>>, 0),
     Entity(id, "StructDecl", nGadget, chain, TRUE,
            <<Member("BaseSpecifier", "public", FALSE,
                     Some(WidgetDecl(chain)))>>, 0),
     Entity(id, "FunctionDecl", nF, chain, FALSE, <<>>, 1),
     \* an anonymous namespace
     Entity(id, "Namespace", <<>>, chain, TRUE, <<>>, 0)}
    \cup
    \* at file scope: the definition of a function declared in ns
    (IF depth = 1
     THEN {Entity(id, "FunctionDecl", nF, <<nsLink>> \o chain, TRUE, <<>>, 1)}
     ELSE {})
    \cup
    \* in a namespace: the definition of a function of its namespace q
    (IF depth = 2
     THEN {Entity(id, "FunctionDecl", nIn, <<qLink>> \o chain, TRUE, <<>>, 1)}
     ELSE {})

\* the same, for the runs that query the finished tree: classes with
\* bases and fields, and names that differ in case only
QueryDecls(id, chain, depth) ==
    {Entity(id, "ClassDecl", nWidget, chain, TRUE, <<>>, 0),
     Entity(id, "StructDecl", nGadget, chain, TRUE,
            <<Member("BaseSpecifier", "public", FALSE,
                     Some(WidgetDecl(chain)))>>, 0),
     Entity(id, "ClassDecl", nwidget, chain, TRUE,
            <<Member("BaseSpecifier", "private", TRUE,
                     Some(WidgetDecl(chain)))>>, 0),
     \* a struct with a base of a dependent type and a field of type Widget
     Entity(id, "StructDecl", <<"H">>, chain, TRUE,
            <<Member("BaseSpecifier", "public", FALSE, None),
              Member("FieldDecl", "public", FALSE,
                     Some(WidgetDecl(chain)))>>, 0),
     Entity(id, "FunctionDecl", nF, chain, FALSE, <<>>, 1)}
    \cup
    \* in a namespace: a struct derived from the Widget of the enclosing
    \* scope
    (IF depth > 1
     THEN {Entity(id, "StructDecl", nGadget, chain, TRUE,
                  <<Member("BaseSpecifier", "protected", FALSE,
                           Some(WidgetDecl(Tail(chain))))>>, 0)}
     ELSE {})

\* the children of the scope `chain` a prose may name: a class and a
\* function whose names differ in case only
LinkDecls(id, chain, depth) ==
    {Entity(id, "ClassDecl", nWidget, chain, TRUE, <<>>, 0),
     Entity(id, "FunctionDecl", nwidget, chain, FALSE, <<>>, 1)}

\* the children of the scope `chain` of the trees that are rendered
BuildDecls(id, chain, depth) ==
    {Entity(id, "ClassDecl", nWidget, chain, TRUE, <<>>, 0),
     Entity(id, "FunctionDecl", nF, chain, FALSE, <<>>, 1)}

\* the children of the scope `chain` of the two-fragment scenario: in a
\* namespace, class Widget without bases and class Gadget : public Widget
ScenarioDecls(id, chain, depth) ==
    IF depth > 1
    THEN {Entity(id, "ClassDecl", nWidget, chain, TRUE, <<>>, 0),
          Entity(id, "ClassDecl", nGadget, chain, TRUE,
                 <<Member("BaseSpecifier", "public", FALSE,
                          Some(WidgetDecl(chain)))>>, 0)}
    ELSE {}

\* the entity `e`, declared in the system header `file`
InSystemHeader(e, file) == [e EXCEPT !.sys = TRUE, !.file = file]

\* the candidates of LoadDecls
LoadCandidates(id, chain, depth) ==
    {Entity(id, "FunctionDecl", nF, chain, FALSE, <<>>, 1),
     \* items of the name NamespaceDecls gives the namespaces of the scope
     Entity(id, "FunctionDecl", IF depth % 2 = 1 THEN nNs ELSE nIn, chain,
            FALSE, <<>>, 1),
     Entity(id, "ClassDecl", IF depth % 2 = 1 THEN nNs ELSE nIn, chain,
            TRUE, <<>>, 0),
     Entity(id, "StructDecl", IF depth % 2 = 1 THEN nNs ELSE nIn, chain,
            FALSE, <<>>, 0),
     \* definitions and forward declarations
     Entity(id, "ClassDecl", nF, chain, TRUE, <<>>, 0),
     Entity(id, "ClassDecl", nF, chain, FALSE, <<>>, 0),
     Entity(id, "StructDecl", nF, chain, FALSE, <<>>, 0),
     \* names the ignore rules may match
     Entity(id, "FunctionDecl", <<"_", "i">>, chain, FALSE, <<>>, 1),
     Entity(id, "FunctionDecl", <<"x">>, chain, FALSE, <<>>, 1),
     Entity(id, "FunctionDecl", <<"x", "_", "i">>, chain, FALSE, <<>>, 1),
     Entity(id, "Namespace", <<"x">>, chain, TRUE, <<>>, 0),
     Entity(id, "Namespace", <<"_", "i">>, chain, TRUE, <<>>, 0),
     \* without a name
     Entity(id, "Namespace", <<>>, chain, TRUE, <<>>, 0),
     Entity(id, "StructDecl", <<>>, chain, TRUE, <<>>, 0),
     \* of namespace std, defined out of it
     Entity(id, "FunctionDecl", nF,
            <<[kind |-> "Namespace", name |-> sStd]>> \o chain, TRUE, <<>>, 1),
     \* what the compiler makes up
     Entity(id, "FunctionTemplate", <<"a", " ">> \o sDeductionGuideFor,
            chain, TRUE, <<>>, 1),
     Entity(id, "StructDecl", sUnnamed \o <<"s">>, chain, TRUE, <<>>, 0),
     Entity(id, "FunctionDecl", <<"(", "f">>, chain, TRUE, <<>>, 1),
     Entity(id, "ClassDecl", <<"]">>, chain, TRUE, <<>>, 0),
     \* of a kind that is not classified
     Entity(id, "EnumDecl", nF, chain, TRUE, <<>>, 0),
     \* of a header of the project that lies below a directory named as a
     \* library is
     [Entity(id, "FunctionDecl", nF, chain, FALSE, <<>>, 1)
         EXCEPT !.file = Some(pLibE)]}
    \cup
    \* of system headers: of one library, of the other, of both, of none,
    \* and of no file
    {InSystemHeader(Entity(id, "FunctionDecl", nF, chain, FALSE, <<>>, 1),
                    file) :
        file \in {Some(pLibE), Some(pLibG), Some(pLibGE), Some(pStdHeader),
                  None}}

\* the children of the scope `chain` of the trees whose every iteration
\* is looked at; a namespace among them is one the loop skips
LoadDecls(id, chain, depth) ==
    {d \in LoadCandidates(id, chain, depth) :
        d.kind = "Namespace" => Skipped(d, Config)}

stdLink == [kind |-> "Namespace", name |-> sStd]
anonLink == [kind |-> "Namespace", name |-> <<>>]
tuLink == Link(TranslationUnit)

\* a parent that is the translation unit under a kind of its own, which
\* its name gives away
cppLink == [kind |-> "NotTranslationUnit", name |-> <<"a">> \o sDotCpp]
unexposedLink == [kind |-> "UnexposedDecl", name |-> <<>>]

\* the semantic parents an entity may have, the nearest first
ChainLinks == {nsLink, anonLink, unexposedLink, tuLink, cppLink}

Chains == UNION {[1..n -> ChainLinks] : n \in 0..MaxChain}

\* the entities whose name and relative URL are asked for: of every kind
\* that is classified and of some that are not, named or not
NameDecls ==
    {Entity(0, kind, name, sem, TRUE, <<>>, 0) :
        kind \in {"StructDecl", "ClassDecl", "ClassTemplate",
                  "ClassTemplatePartialSpecialization", "FunctionDecl",
                  "FunctionTemplate", "Namespace", "EnumDecl", "Method"},
        name \in {nWidget, <<>>},
        sem \in Chains}

\* the declarations a type of the rendered code may resolve to: of every
\* kind, named or not, in and out of namespace std, with and without a
\* file
TypeDecls ==
    {[Entity(0, kind, name, sem, TRUE, <<>>, 0) EXCEPT
         !.sys = TRUE, !.file = defFile, !.defFile = defFile] :
        kind \in {"ClassDecl", "FunctionDecl", "EnumDecl", "Namespace",
                  "TypedefDecl"},
        name \in {nString, <<>>, sStd, nWidget},
        sem \in {<<tuLink>>,
                 <<stdLink, tuLink>>,
                 <<nsLink, stdLink, tuLink>>,
                 <<anonLink, stdLink, tuLink>>,
                 <<stdLink, anonLink, tuLink>>,
                 <<[kind |-> "UnexposedDecl", name |-> <<>>], stdLink,
                   tuLink>>,
                 <<nsLink, tuLink>>},
        defFile \in {None, Some(pStdHeader), Some(pDotDot), Some(<<"/">>)}}

\* the named namespaces among the children of the scope
NamespaceDecls(id, chain, depth) ==
    {Entity(id, "Namespace", IF depth % 2 = 1 THEN nNs ELSE nIn, chain, TRUE,
            <<>>, 0)}

-----------------------------------------------------------------------------
(* The construction of the tree: Namespace::new_root.                      *)

Top == stack[Len(stack)]

\* the semantic parents of a declaration of the namespace being loaded
ScopeChain == <<Link(Top.ent)>> \o Top.ent.sem

SetTop(item) == [stack EXCEPT ![Len(stack)] = item]

\* the finished tree
Root == stack[1]

Init ==
    /\ phase = "load"
    /\ stack = <<NamespaceItem(TranslationUnit, TRUE, NoEntries)>>
    /\ count = 0
    /\ merged = None
    /\ cleaned = None
    /\ out = None
    /\ links = None
    /\ build = None

\* one iteration of the loop of load_entries, on the child `child`, which
\* is no namespace, or is a namespace the loop skips
Load(child) ==
    /\ stack' = SetTop([Top EXCEPT
                          !.entries = LoadedLeaf(Top.entries, child, Config)])
    /\ count' = count + 1
    /\ UNCHANGED <<phase, merged, cleaned, out, links, build>>

LoadChild(max) ==
    /\ phase = "load"
    /\ count < max
    /\ \E child \in LeafDecls(count + 1, ScopeChain, Len(stack)) : Load(child)

LoadQueryChild(max) ==
    /\ phase = "load"
    /\ count < max
    /\ \E child \in QueryDecls(count + 1, ScopeChain, Len(stack)) : Load(child)

LoadLinkChild(max) ==
    /\ phase = "load"
    /\ count < max
    /\ \E child \in LinkDecls(count + 1, ScopeChain, Len(stack)) : Load(child)

LoadBuildChild(max) ==
    /\ phase = "load"
    /\ count < max
    /\ \E child \in BuildDecls(count + 1, ScopeChain, Len(stack)) : Load(child)

LoadScenarioChild(max) ==
    /\ phase = "load"
    /\ count < max
    /\ \E child \in ScenarioDecls(count + 1, ScopeChain, Len(stack)) :
          Load(child)

\* one iteration of the loop of load_entries, on a child that is no
\* namespace or is a namespace the loop skips; the iteration is recorded:
\* the child, the `continue` taken, the library of the child, and the
\* entries before and after
LoadEntry(max) ==
    /\ phase = "load"
    /\ count < max
    /\ \E child \in LoadDecls(count + 1, ScopeChain, Len(stack)) :
          LET after == LoadedLeaf(Top.entries, child, Config)
          IN  /\ stack' = SetTop([Top EXCEPT !.entries = after])
              /\ out' = Some([op |-> "load_entries", child |-> child,
                              rule |-> SkipRule(child, Config),
                              lib |-> GetAllowedExternalLib(child, Config),
                              before |-> Top.entries, after |-> after])
    /\ count' = count + 1
    /\ UNCHANGED <<phase, merged, cleaned, links, build>>

\* the loop of load_entries reaches a namespace: Namespace::new starts to
\* load its entries
EnterNamespace(max) ==
    /\ phase = "load"
    /\ count < max
    /\ Len(stack) <= MaxDepth
    /\ \E child \in NamespaceDecls(count + 1, ScopeChain, Len(stack)) :
          /\ ~Skipped(child, Config)
          /\ stack' = Append(stack, NamespaceItem(child, FALSE, NoEntries))
    /\ count' = count + 1
    /\ UNCHANGED <<phase, merged, cleaned, out, links, build>>

\* the loop of load_entries reaches a namespace q: Namespace::new starts to
\* load its entries
EnterNamespaceQ(max) ==
    /\ phase = "load"
    /\ count < max
    /\ Len(stack) <= MaxDepth
    /\ LET child == Entity(count + 1, "Namespace", qLink.name, ScopeChain,
                           TRUE, <<>>, 0)
       IN  /\ ~Skipped(child, Config)
           /\ stack' = Append(stack, NamespaceItem(child, FALSE, NoEntries))
    /\ count' = count + 1
    /\ UNCHANGED <<phase, merged, cleaned, out, links, build>>

\* Namespace::new returns: the namespace is merged into the namespace of
\* its name, or inserted; a failed assert_eq! ends the program
ExitNamespace ==
    /\ phase = "load"
    /\ Len(stack) > 1
    /\ LET entry == Top
           parent == stack[Len(stack) - 1]
           key == ItemName(entry)
           merges == /\ key \in DOMAIN parent.entries
                     /\ parent.entries[key].kind = "Namespace"
           rest == SubSeq(stack, 1, Len(stack) - 1)
           loaded == LoadedNamespace(parent.entries, entry)
       IN  IF merges /\ ~MergeAssertOk(parent.entries[key], entry)
           THEN /\ phase' = "panic"
                /\ UNCHANGED <<stack, merged>>
           ELSE /\ phase' = phase
                /\ stack' = [rest EXCEPT ![Len(rest)].entries = loaded]
                /\ merged' =
                      IF merges
                      THEN Some([self |-> parent.entries[key],
                                 other |-> entry,
                                 result |-> loaded[key]])
                      ELSE merged
    /\ UNCHANGED <<count, cleaned, out, links, build>>

\* the loop of load_entries on the translation unit reaches namespace std,
\* which no `continue` skips: Namespace::new starts to load its entries
EnterStd(max) ==
    /\ phase = "load"
    /\ count < max
    /\ Len(stack) = 1
    /\ LET child == Entity(count + 1, "Namespace", sStd, ScopeChain, TRUE,
                           <<>>, 0)
       IN  /\ ~Skipped(child, Config)
           /\ stack' = Append(stack, NamespaceItem(child, FALSE, NoEntries))
    /\ count' = count + 1
    /\ UNCHANGED <<phase, merged, cleaned, out, links, build>>

\* Namespace::new returns, and the iteration is recorded: the namespace
\* built and the entries before and after
ExitLoadNamespace ==
    /\ phase = "load"
    /\ Len(stack) > 1
    /\ LET entry == Top
           parent == stack[Len(stack) - 1]
           key == ItemName(entry)
           merges == /\ key \in DOMAIN parent.entries
                     /\ parent.entries[key].kind = "Namespace"
           rest == SubSeq(stack, 1, Len(stack) - 1)
           loaded == LoadedNamespace(parent.entries, entry)
       IN  IF merges /\ ~MergeAssertOk(parent.entries[key], entry)
           THEN /\ phase' = "panic"
                /\ UNCHANGED <<stack, merged, out>>
           ELSE /\ phase' = phase
                /\ stack' = [rest EXCEPT ![Len(rest)].entries = loaded]
                /\ merged' =
                      IF merges
                      THEN Some([self |-> parent.entries[key],
                                 other |-> entry,
                                 result |-> loaded[key]])
                      ELSE merged
                /\ out' = Some([op |-> "namespace", child |-> entry.ent,
                                entry |-> entry,
                                before |-> parent.entries,
                                after |-> loaded])
    /\ UNCHANGED <<count, cleaned, links, build>>

\* new_root: load_entries has returned, clean_empty_namespaces runs
Finish ==
    /\ phase = "load"
    /\ Len(stack) = 1
    /\ cleaned' = Some(stack[1])
    /\ stack' = <<CleanEmptyNamespaces(stack[1])>>
    /\ phase' = "done"
    /\ UNCHANGED <<count, merged, out, links, build>>

\* output_classlike renders the page of the class or struct `target` of
\* the finished tree: its "derived_classes" section
DerivedClassesQuery ==
    /\ phase = "done"
    /\ \E p \in Paths(Root) :
          LET target == ItemAt(Root, p)
          IN  /\ target.kind \in {"Class", "Struct"}
              /\ out' = Some([op |-> "derived_classes", target |-> target,
                              result |-> DerivedClasses(Root, target)])
    /\ UNCHANGED <<treeVars, links, build>>

\* the matchers get is called with: the sets of categories they accept
GetMatchers ==
    {{"class", "struct"}, {"namespace"}, {"function"}, {"namespace", "class"},
     {"namespace", "class", "struct", "function"}, {}}

\* Namespace::get is called on a namespace of the finished tree, the root
\* or another
GetQuery ==
    /\ phase = "done"
    /\ out = None
    /\ \E p \in Paths(Root) \cup {<<>>}, cats \in GetMatchers :
          /\ ItemAt(Root, p).kind = "Namespace"
          /\ out' = Some([op |-> "get", self |-> ItemAt(Root, p),
                          cats |-> cats,
                          result |-> NamespaceGet(ItemAt(Root, p), cats)])
    /\ UNCHANGED <<treeVars, links, build>>

\* fmt_type resolves the link of a type whose declaration is `decl`
FmtTypeLink ==
    /\ \E decl \in TypeDecls :
          out' = Some([op |-> "abs_docs_url", target |-> decl,
                       result |-> AbsDocsUrl(decl, Config)])
    /\ UNCHANGED <<treeVars, links, build>>

\* full_name is called on the entity `decl`
FullNameQuery ==
    /\ out = None
    /\ \E decl \in NameDecls :
          out' = Some([op |-> "full_name", target |-> decl,
                       result |-> FullName(decl)])
    /\ UNCHANGED <<treeVars, links, build>>

\* rel_docs_url is called on the entity `decl`
RelDocsUrlQuery ==
    /\ out = None
    /\ \E decl \in NameDecls :
          out' = Some([op |-> "rel_docs_url", target |-> decl,
                       result |-> RelDocsUrl(decl)])
    /\ UNCHANGED <<treeVars, links, build>>

-----------------------------------------------------------------------------
(* The emoji of a text: fmt_emoji.  An emoji is one character of the       *)
(* result, written "*" and its shortcode.                                  *)

\* the characters of the texts: the colon, two letters, the underscore and
\* the space
EmojiChars == {":", "a", "b", "_", " "}

EmojiTexts == UNION {[1..n -> EmojiChars] : n \in 0..MaxEmojiText}

\* emojis::get_by_shortcode, for a table of the shortcodes a and ab
GetByShortcode(buffer) ==
    CASE buffer = <<"a">> -> Some("*a")
      [] buffer = <<"a", "b">> -> Some("*ab")
      [] OTHER -> None

\* char::is_alphanumeric, on the characters of the model
IsAlphanumeric(d) ==
    d \notin {" ", "(", ")", ".", "/", ":", "<", ">", "[", "]", "_"}

RECURSIVE EatEmojiClosed(_, _, _)
\* an eat_emoji that finds no emoji when the text ends before a colon
EatEmojiClosed(iter, i, buffer) ==
    IF i + 1 > Len(iter) THEN None
    ELSE IF IsAlphanumeric(iter[i + 1]) \/ iter[i + 1] = "_"
    THEN EatEmojiClosed(iter, i + 1, Append(buffer, iter[i + 1]))
    ELSE IF iter[i + 1] = ":" /\ GetByShortcode(buffer) # None
    THEN Some([emoji |-> Unwrap(GetByShortcode(buffer)),
               rest |-> SubSeq(iter, i + 2, Len(iter))])
    ELSE None

RECURSIVE EatEmoji(_, _, _)
\* eat_emoji, from the pass `i` of its loop on with the buffer `buffer`:
\* the emoji and what is left of the iterator, if it finds one; peek_nth
\* yields nothing at the end of the text, which ends the loop as a colon
\* does, and advance_by then takes the characters that are left
EatEmoji(iter, i, buffer) ==
    IF i + 1 <= Len(iter) /\ (IsAlphanumeric(iter[i + 1]) \/ iter[i + 1] = "_")
    THEN EatEmoji(iter, i + 1, Append(buffer, iter[i + 1]))
    ELSE IF i + 1 <= Len(iter) /\ iter[i + 1] # ":"
    THEN None
    ELSE IF GetByShortcode(buffer) # None
    THEN Some([emoji |-> Unwrap(GetByShortcode(buffer)),
               rest |-> SubSeq(iter, i + 2, Len(iter))])
    ELSE None

RECURSIVE FmtEmoji(_)
\* fmt_emoji
FmtEmoji(text) ==
    IF text = <<>> THEN <<>>
    ELSE LET c == Head(text)
             eaten == IF c = ":" THEN EatEmoji(Tail(text), 0, <<>>) ELSE None
         IN  IF eaten # None
             THEN <<Unwrap(eaten).emoji>> \o FmtEmoji(Unwrap(eaten).rest)
             ELSE <<c>> \o FmtEmoji(Tail(text))

\* fmt_emoji is called on a text
EmojiQuery ==
    /\ out = None
    /\ \E text \in EmojiTexts :
          out' = Some([op |-> "fmt_emoji", text |-> text,
                       result |-> FmtEmoji(text)])
    /\ UNCHANGED <<treeVars, links, build>>

-----------------------------------------------------------------------------
(* The navigation: Entry::nav.  A NavItem is a record [type, name, items]: *)
(* "root", "dir" or "link", its name if it has one, and its items.         *)

\* an order of the entries by their names alone
NavKeyLessByName(entries, a, b) == StrLess(a, b)

\* the order of the keys (!matches!(p.1, CppItem::Namespace(_)), p.0) of
\* sort_by_key
NavKeyLess(entries, a, b) ==
    LET ka == entries[a].kind # "Namespace"
        kb == entries[b].kind # "Namespace"
    IN  \/ ~ka /\ kb
        \/ ka = kb /\ StrLess(a, b)

\* entries.sort_by_key: the keys of the entries, which differ, in order
NavSorted(entries) ==
    [i \in 1..Cardinality(DOMAIN entries) |->
        CHOOSE k \in DOMAIN entries :
            Cardinality({j \in DOMAIN entries : NavKeyLess(entries, j, k)})
               = i - 1]

RECURSIVE Nav(_)
\* Entry::nav of a CppItem
Nav(item) ==
    IF item.kind = "Namespace"
    THEN [type |-> IF item.is_root THEN "root" ELSE "dir",
          name |-> IF item.is_root THEN None ELSE Some(ItemName(item)),
          items |-> [i \in 1..Cardinality(DOMAIN item.entries) |->
                        Nav(item.entries[NavSorted(item.entries)[i]])]]
    ELSE [type |-> "link", name |-> Some(ItemName(item)), items |-> <<>>]

\* the navigation of the finished tree is built
NavQuery ==
    /\ phase = "done"
    /\ out = None
    /\ out' = Some([op |-> "nav", result |-> Nav(Root)])
    /\ UNCHANGED <<treeVars, links, build>>

-----------------------------------------------------------------------------
(* The link to the header of an entity: fmt_header_link, and the link of a *)
(* type: fmt_type.  A configuration of the headers is a record             *)
(*   input_dir      the directory of the input                             *)
(*   tree           the base of the URLs of the sources online, if any     *)
(*   sources        the sources, each a record [dir, exists_online]        *)
(*   external_libs  as in Config                                           *)

pInclude == <<"/", "p", "/", "i", "n", "c", "/", "a", ".", "h">>
sTree == <<"h", "t", "t", "p", "s", ":", "/", "/", "t">>

HeaderConfigs ==
    {[input_dir |-> <<"/", "p">>,
      tree |-> tree,
      sources |-> << [dir |-> << <<"i", "n", "c">> >>,
                      exists_online |-> online] >>,
      external_libs |-> Config.external_libs,
      output_url |-> Config.output_url] :
        tree \in {None, Some(sTree)}, online \in BOOLEAN}

\* EntityMethods::header: the defining file, without the directory of the
\* input when it lies below it
Header(e, config) ==
    IF e.defFile = None THEN None
    ELSE LET path == Unwrap(e.defFile)
             dir == config.input_dir \o <<"/">>
         IN  IF StartsWith(path, dir)
             THEN Some(SubSeq(path, Len(dir) + 1, Len(path)))
             ELSE Some(path)

\* EntityMethods::config_source: the first source below whose directory
\* the header lies
ConfigSource(e, config) ==
    IF Header(e, config) = None THEN None
    ELSE LET comps == NonEmpty(Split(Unwrap(Header(e, config)), "/"))
             hits == {i \in 1..Len(config.sources) :
                         /\ Len(config.sources[i].dir) <= Len(comps)
                         /\ SubSeq(comps, 1, Len(config.sources[i].dir))
                               = config.sources[i].dir}
         IN  IF hits = {} THEN None
             ELSE Some(config.sources[CHOOSE i \in hits :
                                         \A j \in hits : i <= j])

\* EntityMethods::github_url: [fatal, value]; fatal when unreachable! is
\* reached
GithubUrl(e, config) ==
    IF IsStdItem(e) THEN [fatal |-> TRUE, value |-> None]
    ELSE IF GetAllowedExternalLib(e, config) # None
    THEN [fatal |-> FALSE,
          value |-> Some(Unwrap(GetAllowedExternalLib(e, config)).repository)]
    ELSE IF \/ config.tree = None
            \/ Header(e, config) = None
            \/ UrlParse(Unwrap(Header(e, config))) = None
    THEN [fatal |-> FALSE, value |-> None]
    ELSE [fatal |-> FALSE,
          value |-> Some(Unwrap(config.tree)
                         \o UrlDisplay(Unwrap(UrlParse(
                                Unwrap(Header(e, config))))))]

\* UrlPath::strip_prefix
UrlStripPrefix(url, prefix) ==
    IF /\ Len(prefix) <= Len(url.segs)
       /\ SubSeq(url.segs, 1, Len(prefix)) = prefix
    THEN [url EXCEPT !.segs = SubSeq(@, Len(prefix) + 1, Len(@))]
    ELSE url

\* EntityMethods::include_path
IncludePath(e, config) ==
    IF e.sys
    THEN IF \/ Header(e, config) = None
            \/ PathFileName(Unwrap(Header(e, config))) = None
         THEN None
         ELSE Some(UrlPart(Unwrap(PathFileName(Unwrap(Header(e, config))))))
    ELSE IF \/ Header(e, config) = None
            \/ UrlParse(Unwrap(Header(e, config))) = None
            \/ ConfigSource(e, config) = None
         THEN None
         ELSE Some(UrlStripPrefix(Unwrap(UrlParse(Unwrap(Header(e, config)))),
                                  Unwrap(ConfigSource(e, config)).dir))

\* a fmt_header_link that unwraps the include path
FmtHeaderLinkUnwraps(e, config) ==
    [fatal |-> GithubUrl(e, config).fatal \/ IncludePath(e, config) = None,
     placeholder |-> GithubUrl(e, config).value = None,
     href |-> None, disabled |-> FALSE, included |-> None]

\* fmt_header_link: whether the program panics and, when it does not,
\* whether the placeholder is rendered, the href of the link, whether it
\* bears the class disabled, and the path it shows
FmtHeaderLink(e, config) ==
    LET link == GithubUrl(e, config)
        path == IncludePath(e, config)
        exists_online == IF ConfigSource(e, config) = None THEN TRUE
                         ELSE Unwrap(ConfigSource(e, config)).exists_online
    IN  IF link.fatal
        THEN [fatal |-> TRUE, placeholder |-> FALSE, href |-> None,
              disabled |-> FALSE, included |-> None]
        ELSE IF link.value # None /\ path # None
        THEN [fatal |-> FALSE, placeholder |-> FALSE,
              href |-> IF exists_online THEN link.value ELSE None,
              disabled |-> ~exists_online, included |-> path]
        ELSE [fatal |-> FALSE, placeholder |-> TRUE, href |-> None,
              disabled |-> FALSE, included |-> None]

\* the <a> of fmt_type for a type whose declaration is `decl`, if it has
\* one: its href and whether it bears the class disabled
FmtType(decl, config) ==
    LET link == IF decl = None THEN None ELSE AbsDocsUrl(decl[1], config)
    IN  [href |-> link, disabled |-> link = None]

\* the entities whose header is linked and the declarations of the types:
\* in and out of system headers, of files in and out of the sources, of
\* the libraries and of none, of a classified kind and of none
HeaderDecls ==
    {[Entity(0, kind, nWidget, sem, TRUE, <<>>, 0) EXCEPT
         !.sys = sys, !.file = file, !.defFile = file] :
        kind \in {"ClassDecl", "EnumDecl"},
        sem \in {<<nsLink, tuLink>>, <<stdLink, tuLink>>},
        sys \in BOOLEAN,
        file \in {None, Some(pInclude), Some(pProject), Some(pLibE),
                  Some(pStdHeader), Some(pDotDot), Some(<<"/">>)}}

\* fmt_header_link is called
HeaderLinkQuery ==
    /\ out = None
    /\ \E e \in HeaderDecls, config \in HeaderConfigs :
          out' = Some([op |-> "fmt_header_link", target |-> e,
                       config |-> config,
                       github |-> GithubUrl(e, config).value,
                       include |-> IncludePath(e, config),
                       result |-> FmtHeaderLink(e, config)])
    /\ UNCHANGED <<treeVars, links, build>>

\* the children of the scope `chain` of the trees whose items may be named
\* std: a struct std and a function std, and a class and a function of other
\* names
StdDecls(id, chain, depth) ==
    {Entity(id, "StructDecl", sStd, chain, TRUE, <<>>, 0),
     Entity(id, "FunctionDecl", sStd, chain, FALSE, <<>>, 1),
     Entity(id, "ClassDecl", nWidget, chain, TRUE, <<>>, 0),
     Entity(id, "FunctionDecl", nF, chain, FALSE, <<>>, 1)}

LoadStdChild(max) ==
    /\ phase = "load"
    /\ count < max
    /\ \E child \in StdDecls(count + 1, ScopeChain, Len(stack)) : Load(child)

\* output_entity renders the page of an item of the finished tree that is
\* no namespace: its "header_link"; the unreachable! of github_url ends the
\* program
OutputEntity ==
    /\ phase = "done"
    /\ out = None
    /\ \E p \in Paths(Root), config \in HeaderConfigs :
          LET entry == ItemAt(Root, p)
              header_link == FmtHeaderLink(entry.ent, config)
          IN  /\ entry.kind # "Namespace"
              /\ out' = Some([op |-> "output_entity", target |-> entry.ent,
                              config |-> config, result |-> header_link])
              /\ phase' = IF header_link.fatal THEN "panic" ELSE phase
    /\ UNCHANGED <<stack, count, merged, cleaned, links, build>>

\* fmt_type is called on a type with or without a declaration
TypeLinkQuery ==
    /\ out = None
    /\ \E decl \in {None} \cup {Some(e) : e \in HeaderDecls},
          config \in HeaderConfigs :
          out' = Some([op |-> "fmt_type", target |-> decl,
                       config |-> config,
                       result |-> FmtType(decl, config)])
    /\ UNCHANGED <<treeVars, links, build>>

-----------------------------------------------------------------------------
(* A call of merge_with_namespace, step by step.  The call is a record     *)
(*   self, other  the arguments                                            *)
(*   now          self as it is                                            *)
(*   todo         the keys of other the loop has yet to visit              *)
(*   status       "called", "merging" (the assert_eq! has held),           *)
(*                "panicked" or "returned"                                 *)

\* the namespaces merge_with_namespace is called on: of two names, the
\* entities of each numbered from `base` on, with entries keyed by the
\* names of their items as load_entries keys them
MergeFragments(base) ==
    LET ns(id, name, chain, entries) ==
            NamespaceItem(Entity(id, "Namespace", name, chain, TRUE, <<>>,
                                 0), FALSE, entries)
        leaf(kind, decl, id, name, chain) ==
            LeafItem(kind, Entity(id, decl, name, chain, TRUE, <<>>, 0))
        inner(name) == <<[kind |-> "Namespace", name |-> name], tuLink>>
        shapes(name) ==
            {NoEntries,
             nF :> leaf("Function", "FunctionDecl", base + 1, nF,
                        inner(name)),
             nWidget :> leaf("Class", "ClassDecl", base + 1, nWidget,
                             inner(name)),
             (nF :> leaf("Function", "FunctionDecl", base + 1, nF,
                         inner(name)))
               @@ (nWidget :> leaf("Class", "ClassDecl", base + 2, nWidget,
                                   inner(name))),
             nIn :> ns(base + 1, nIn, inner(name), NoEntries),
             nIn :> ns(base + 1, nIn, inner(name),
                       nF :> leaf("Function", "FunctionDecl", base + 2, nF,
                                  <<[kind |-> "Namespace", name |-> nIn]>>
                                     \o inner(name))),
             nIn :> leaf("Function", "FunctionDecl", base + 1, nIn,
                         inner(name))}
    IN  UNION {{ns(base, name, <<tuLink>>, entries) :
                   entries \in shapes(name)} : name \in {nNs, <<"q">>}}

\* an assert_eq! that is compiled out
AssertNothing(left, right) == TRUE

\* assert_eq!(left, right) holds
AssertEq(left, right) == left = right

\* merge_with_namespace is called
MergeCall ==
    /\ out = None
    /\ \E self \in MergeFragments(1), other \in MergeFragments(5) :
          out' = Some([op |-> "merge", self |-> self, other |-> other,
                       now |-> self, todo |-> DOMAIN other.entries,
                       status |-> "called"])
    /\ UNCHANGED <<treeVars, links, build>>

\* the assert_eq! on the names of the two entities: the call goes on to
\* the loop, or the program panics
MergeAssert ==
    /\ out # None /\ out[1].op = "merge" /\ out[1].status = "called"
    /\ out' = Some([out[1] EXCEPT !.status =
                       IF AssertEq(out[1].self.ent.name,
                                   out[1].other.ent.name)
                       THEN "merging" ELSE "panicked"])
    /\ UNCHANGED <<treeVars, links, build>>

\* one iteration of the loop over the entries of other, which a HashMap
\* yields in any order: a nested namespace is merged, which may panic in
\* turn, any other entry is inserted
MergeLoop ==
    /\ out # None /\ out[1].op = "merge" /\ out[1].status = "merging"
    /\ \E name \in out[1].todo :
          LET other_entry == out[1].other.entries[name]
              now == out[1].now
              nested == /\ other_entry.kind = "Namespace"
                        /\ name \in DOMAIN now.entries
                        /\ now.entries[name].kind = "Namespace"
          IN  out' =
                 IF nested /\ ~MergeAssertOk(now.entries[name], other_entry)
                 THEN Some([out[1] EXCEPT !.status = "panicked"])
                 ELSE Some([out[1] EXCEPT
                              !.todo = @ \ {name},
                              !.now.entries =
                                 Insert(@, name,
                                        IF nested
                                        THEN MergeWithNamespace(
                                                now.entries[name],
                                                other_entry)
                                        ELSE other_entry)])
    /\ UNCHANGED <<treeVars, links, build>>

\* the loop has ended: merge_with_namespace returns
MergeReturn ==
    /\ out # None /\ out[1].op = "merge" /\ out[1].status = "merging"
    /\ out[1].todo = {}
    /\ out' = Some([out[1] EXCEPT !.status = "returned"])
    /\ UNCHANGED <<treeVars, links, build>>

-----------------------------------------------------------------------------
(* The autolinks of a prose: fmt_autolinks.  The Annotations of a prose    *)
(* are the sequence of its word-tokens, each a record [raw, value, by, n]: *)
(* raw the word, value the text that replaces it (None: not rewritten), by *)
(* the id of the entity whose pass wrote the value (0: none), n how often  *)
(* the running pass wrote it.  The run is a record                         *)
(*   text     the prose                                                    *)
(*   skips    whether Annotations::next passes over the rewritten tokens   *)
(*   tokens   the Annotations                                              *)
(*   cursor   the token Annotations::next yielded last (0: rewound)        *)
(*   cur      the item fmt_autolinks_recursive is called on: <<item>>      *)
(*   before   the Annotations when the call on `cur` began                 *)
(*   frames   the loops over the values of the entries that are running,   *)
(*            the outermost first: the items each has yet to visit         *)
(*   visited  the ids of the entities visited, in the order of the visits  *)

\* the words of the proses
Words == {nWidget, nwidget, nSee}

\* the proses
Texts == UNION {[1..n -> Words] : n \in 0..MaxWords}

\* Annotations::new
AnnotationsNew(text) ==
    [i \in 1..Len(text) |->
        [raw |-> text[i], value |-> None, by |-> 0, n |-> 0]]

\* Annotations::next: the index of the word-token after `cursor` it yields,
\* 0 when it yields None
AnnotationsNext(tokens, cursor, skips) ==
    LET rest == {i \in (cursor + 1)..Len(tokens) :
                    ~skips \/ tokens[i].value = None}
    IN  IF rest = {} THEN 0 ELSE CHOOSE i \in rest : \A j \in rest : i <= j

\* Annotations::annotate, in the pass of the entity `by`: `value` replaces
\* the word next yielded last
AnnotationsAnnotate(tokens, i, value, by) ==
    [tokens EXCEPT ![i] = [raw |-> @.raw, value |-> Some(value), by |-> by,
                           n |-> @.n + 1]]

\* Annotations::into_result: the words of the prose, the rewritten ones
\* replaced
AnnotationsIntoResult(tokens) ==
    [i \in 1..Len(tokens) |->
        IF tokens[i].value = None THEN tokens[i].raw
        ELSE Unwrap(tokens[i].value)]

\* word.chars().all(|c| c.is_lowercase())
AllLowercase(word) == \A i \in 1..Len(word) : IsLowercase(word[i])

\* a test of the words that ignores their case
MatchesAnyCase(word, item) == word = ItemName(item)

\* the test of fmt_autolinks_recursive on a word
AutolinkMatches(word, item) ==
    ~AllLowercase(word) /\ word = ItemName(item)

\* format!("[{word}]({})", url)
FmtLink(word, url) ==
    <<"[">> \o word \o <<"]", "(">> \o UrlDisplay(url) \o <<")">>

\* a loop body that rewrites one occurrence at most in a pass
AutolinkFirstWordOnly(tokens, i, item, config) ==
    LET word == tokens[i].raw
        url == AbsDocsUrl(item.ent, config)
    IN  IF AutolinkMatches(word, item) /\ url # None
           /\ \A j \in 1..Len(tokens) : tokens[j].n = 0
        THEN AnnotationsAnnotate(tokens, i, FmtLink(word, Unwrap(url)),
                                 item.ent.id)
        ELSE tokens

\* the body of the loop of fmt_autolinks_recursive, on the word `i`
AutolinkWord(tokens, i, item, config) ==
    LET word == tokens[i].raw
        url == AbsDocsUrl(item.ent, config)
    IN  IF AutolinkMatches(word, item) /\ url # None
        THEN AnnotationsAnnotate(tokens, i, FmtLink(word, Unwrap(url)),
                                 item.ent.id)
        ELSE tokens

\* the items a loop over the values of `entries` visits
ValueSet(entries) == {entries[k] : k \in DOMAIN entries}

\* the loops that run once a loop over the values of `entries` has begun
PushFrame(frames, entries) ==
    IF DOMAIN entries = {} THEN frames
    ELSE Append(frames, ValueSet(entries))

\* fmt_autolinks begins: Annotations::new
StartAutolinks ==
    /\ phase = "done"
    /\ links = None
    /\ \E text \in Texts, skips \in BOOLEAN :
          links' = Some([text |-> text, skips |-> skips,
                         tokens |-> AnnotationsNew(text), cursor |-> 0,
                         cur |-> None, before |-> AnnotationsNew(text),
                         frames |-> PushFrame(<<>>, Root.entries),
                         visited |-> <<>>])
    /\ UNCHANGED <<treeVars, out, build>>

\* the prose "See Widget for details"
SeeWidgetForDetails ==
    <<nSee, nWidget, <<"f", "o", "r">>,
      <<"d", "e", "t", "a", "i", "l", "s">>>>

\* fmt_autolinks begins on the prose "See Widget for details"
StartScenarioLinks ==
    /\ phase = "done"
    /\ links = None
    /\ \E skips \in BOOLEAN :
          links' = Some([text |-> SeeWidgetForDetails, skips |-> skips,
                         tokens |-> AnnotationsNew(SeeWidgetForDetails),
                         cursor |-> 0, cur |-> None,
                         before |-> AnnotationsNew(SeeWidgetForDetails),
                         frames |-> PushFrame(<<>>, Root.entries),
                         visited |-> <<>>])
    /\ UNCHANGED <<treeVars, out, build>>

\* a loop over the values of the entries calls fmt_autolinks_recursive on
\* its next item, which rewinds the Annotations
VisitEntity ==
    /\ links # None
    /\ LET l == links[1]
       IN  /\ l.cur = None
           /\ l.frames # <<>>
           /\ \E item \in l.frames[Len(l.frames)] :
                 LET rest == l.frames[Len(l.frames)] \ {item}
                     outer == SubSeq(l.frames, 1, Len(l.frames) - 1)
                 IN  links' =
                        Some([l EXCEPT
                                !.cur = Some(item),
                                !.cursor = 0,
                                !.tokens =
                                   [i \in 1..Len(l.tokens) |->
                                       [l.tokens[i] EXCEPT !.n = 0]],
                                !.before = l.tokens,
                                !.frames = IF rest = {} THEN outer
                                           ELSE Append(outer, rest),
                                !.visited = Append(@, item.ent.id)])
    /\ UNCHANGED <<treeVars, out, build>>

\* one iteration of the loop of fmt_autolinks_recursive
AutolinkStep ==
    /\ links # None
    /\ LET l == links[1]
       IN  /\ l.cur # None
           /\ LET i == AnnotationsNext(l.tokens, l.cursor, l.skips)
              IN  /\ i # 0
                  /\ links' =
                        Some([l EXCEPT
                                !.tokens = AutolinkWord(l.tokens, i, l.cur[1],
                                                        Config),
                                !.cursor = i])
    /\ UNCHANGED <<treeVars, out, build>>

\* the loop of fmt_autolinks_recursive ends; on a namespace the loop over
\* the values of its entries begins
AutolinkRecurse ==
    /\ links # None
    /\ LET l == links[1]
       IN  /\ l.cur # None
           /\ AnnotationsNext(l.tokens, l.cursor, l.skips) = 0
           /\ links' =
                 Some([l EXCEPT
                         !.cur = None,
                         !.frames = IF l.cur[1].kind = "Namespace"
                                    THEN PushFrame(@, l.cur[1].entries)
                                    ELSE @])
    /\ UNCHANGED <<treeVars, out, build>>

\* fmt_autolinks returns: Annotations::into_result
FinishAutolinks ==
    /\ links # None
    /\ out = None
    /\ LET l == links[1]
       IN  /\ l.cur = None
           /\ l.frames = <<>>
           /\ out' = Some([op |-> "autolinks", target |-> l.text,
                           result |-> AnnotationsIntoResult(l.tokens)])
    /\ UNCHANGED <<treeVars, links, build>>

-----------------------------------------------------------------------------
(* The render of the tree: Entry::build.  The run is a record              *)
(*   frames  the calls of Namespace::build that are running, the call on   *)
(*           the root first, each a record [todo, handles]: the entries    *)
(*           its loop has yet to visit, and its Vec `handles`              *)
(*   tasks   the tasks spawned so far, each a record [item, status, held,  *)
(*           dropped]: the item it renders, "running", "ok" (it yielded    *)
(*           the URL of the item), "err" (it yielded an error) or          *)
(*           "aborted", whether its JoinHandle is still held, and whether  *)
(*           the JoinHandle was dropped while the task was running         *)
(*   ret     what build returned on the root: <<[ok, handles]>>            *)
(*   result  the result of the build as a whole: <<[ok, urls]>>            *)
(* A JoinHandle is the index of its task in `tasks`.                       *)

\* a Vec::extend that keeps the handles of the last child only
KeepLast(handles, more) == more

\* Vec::extend
Extend(handles, more) == handles \o more

\* a drop of JoinHandles that aborts their tasks
AbortHandles(tasks, handles) ==
    [k \in 1..Len(tasks) |->
        IF \E h \in 1..Len(handles) : handles[h] = k
        THEN [tasks[k] EXCEPT
                !.held = FALSE,
                !.dropped = (tasks[k].status = "running"),
                !.status = IF @ = "running" THEN "aborted" ELSE @]
        ELSE tasks[k]]

\* the drop of the Vec `handles`: a dropped JoinHandle detaches its task,
\* which goes on running
DropHandles(tasks, handles) ==
    [k \in 1..Len(tasks) |->
        IF \E h \in 1..Len(handles) : handles[h] = k
        THEN [tasks[k] EXCEPT
                !.held = FALSE,
                !.dropped = (tasks[k].status = "running")]
        ELSE tasks[k]]

\* the handles the running calls of Namespace::build hold
HandlesOf(frames) ==
    Concat([k \in 1..Len(frames) |-> frames[k].handles])

\* Builder::build calls build on the root
StartBuild ==
    /\ phase = "done"
    /\ build = None
    /\ build' = Some([frames |-> <<[todo |-> ValueSet(Root.entries),
                                    handles |-> <<>>]>>,
                      tasks |-> <<>>, ret |-> None, result |-> None])
    /\ UNCHANGED <<treeVars, out, links>>

\* the loop of Namespace::build reaches a class, a struct or a function,
\* whose build spawns the task that renders it and returns its JoinHandle
SpawnLeaf ==
    /\ build # None
    /\ LET b == build[1]
       IN  /\ b.frames # <<>>
           /\ \E entry \in b.frames[Len(b.frames)].todo :
                 /\ entry.kind # "Namespace"
                 /\ build' =
                       Some([b EXCEPT
                               !.tasks =
                                  Append(@, [item |-> entry,
                                             status |-> "running",
                                             held |-> TRUE,
                                             dropped |-> FALSE]),
                               !.frames[Len(b.frames)] =
                                  [todo |-> @.todo \ {entry},
                                   handles |->
                                      Extend(@.handles,
                                             <<Len(b.tasks) + 1>>)]])
    /\ UNCHANGED <<treeVars, out, links>>

\* the loop of Namespace::build reaches an entry whose build returns Err:
\* the `?` returns the error from the call and from the calls around it,
\* which drop their handles
FailEntry ==
    /\ build # None
    /\ LET b == build[1]
       IN  /\ b.frames # <<>>
           /\ \E entry \in b.frames[Len(b.frames)].todo :
                 /\ entry.kind # "Namespace"
                 /\ build' =
                       Some([b EXCEPT
                               !.tasks = DropHandles(@, HandlesOf(b.frames)),
                               !.frames = <<>>,
                               !.ret = Some([ok |-> FALSE,
                                             handles |-> <<>>])])
    /\ UNCHANGED <<treeVars, out, links>>

\* a loop that calls the build of a namespace and keeps the namespace among
\* the entries it has yet to visit
EnterBuildKeepsEntry ==
    /\ build # None
    /\ LET b == build[1]
       IN  /\ b.frames # <<>>
           /\ \E entry \in b.frames[Len(b.frames)].todo :
                 /\ entry.kind = "Namespace"
                 /\ build' =
                       Some([b EXCEPT
                               !.frames =
                                  Append(@, [todo |-> ValueSet(entry.entries),
                                             handles |-> <<>>])])
    /\ UNCHANGED <<treeVars, out, links>>

\* the loop of Namespace::build reaches a namespace and calls its build
EnterBuild ==
    /\ build # None
    /\ LET b == build[1]
       IN  /\ b.frames # <<>>
           /\ \E entry \in b.frames[Len(b.frames)].todo :
                 /\ entry.kind = "Namespace"
                 /\ build' =
                       Some([b EXCEPT
                               !.frames =
                                  Append([@ EXCEPT
                                            ![Len(b.frames)].todo =
                                               @ \ {entry}],
                                         [todo |-> ValueSet(entry.entries),
                                          handles |-> <<>>])])
    /\ UNCHANGED <<treeVars, out, links>>

\* the loop of Namespace::build ends: Ok(handles), which the loop of the
\* call around it adds to its own
ReturnBuild ==
    /\ build # None
    /\ LET b == build[1]
           n == Len(b.frames)
       IN  /\ n > 0
           /\ b.frames[n].todo = {}
           /\ build' =
                 Some(IF n = 1
                      THEN [b EXCEPT
                              !.frames = <<>>,
                              !.ret = Some([ok |-> TRUE,
                                            handles |-> b.frames[1].handles])]
                      ELSE [b EXCEPT
                              !.frames =
                                 [SubSeq(b.frames, 1, n - 1) EXCEPT
                                    ![n - 1].handles =
                                       Extend(@, b.frames[n].handles)]])
    /\ UNCHANGED <<treeVars, out, links>>

\* a task ends: it yields the URL of its item, or an error
TaskEnds ==
    /\ build # None
    /\ LET b == build[1]
       IN  \E k \in 1..Len(b.tasks), status \in {"ok", "err"} :
              /\ b.tasks[k].status = "running"
              /\ build' = Some([b EXCEPT !.tasks[k].status = status])
    /\ UNCHANGED <<treeVars, out, links>>

\* the tasks of the handles
TasksOf(b, handles) == {b.tasks[handles[h]] : h \in 1..Len(handles)}

\* Builder::build returns an error: build returned one on the root, or a
\* task it waits for has yielded one
BuildFails ==
    /\ build # None
    /\ LET b == build[1]
       IN  /\ b.ret # None
           /\ b.result = None
           /\ \/ ~b.ret[1].ok
              \/ \E t \in TasksOf(b, b.ret[1].handles) : t.status = "err"
           /\ build' =
                 Some([b EXCEPT
                         !.tasks = DropHandles(@, b.ret[1].handles),
                         !.result = Some([ok |-> FALSE, urls |-> <<>>])])
    /\ UNCHANGED <<treeVars, out, links>>

\* Builder::build returns the URLs: every task it waited for has yielded
\* one
BuildSucceeds ==
    /\ build # None
    /\ LET b == build[1]
       IN  /\ b.ret # None
           /\ b.result = None
           /\ b.ret[1].ok
           /\ \A t \in TasksOf(b, b.ret[1].handles) : t.status = "ok"
           /\ build' =
                 Some([b EXCEPT
                         !.result =
                            Some([ok |-> TRUE,
                                  urls |->
                                     [h \in 1..Len(b.ret[1].handles) |->
                                         ItemUrl(b.tasks[b.ret[1].handles[h]]
                                                    .item)]])])
    /\ UNCHANGED <<treeVars, out, links>>

Next ==
    \/ LoadChild(MaxDecls)
    \/ EnterNamespace(MaxDecls)
    \/ ExitNamespace
    \/ Finish

Spec == Init /\ [][Next]_vars

\* the construction of a tree, and the queries on the finished tree
NextQuery ==
    \/ LoadQueryChild(MaxQueryDecls)
    \/ EnterNamespace(MaxQueryDecls)
    \/ ExitNamespace
    \/ Finish
    \/ DerivedClassesQuery

SpecQuery == Init /\ [][NextQuery]_vars

\* the construction of a tree, and the autolinks of a prose on it
NextLinks ==
    \/ LoadLinkChild(MaxLinkDecls)
    \/ EnterNamespace(MaxLinkDecls)
    \/ ExitNamespace
    \/ Finish
    \/ StartAutolinks
    \/ VisitEntity
    \/ AutolinkStep
    \/ AutolinkRecurse
    \/ FinishAutolinks

SpecLinks == Init /\ [][NextLinks]_vars

\* the construction of a tree, and its render
NextBuild ==
    \/ LoadBuildChild(MaxBuildDecls)
    \/ EnterNamespace(MaxBuildDecls)
    \/ ExitNamespace
    \/ Finish
    \/ StartBuild
    \/ SpawnLeaf
    \/ FailEntry
    \/ EnterBuild
    \/ ReturnBuild
    \/ TaskEnds
    \/ BuildFails
    \/ BuildSucceeds

SpecBuild == Init /\ [][NextBuild]_vars

\* the resolution of the links of the types
SpecUrl == Init /\ [][FmtTypeLink]_vars

\* the two-fragment scenario: a tree of classes Widget and Gadget, its
\* derived_classes sections and the autolinks of a prose
NextScenario ==
    \/ LoadScenarioChild(MaxScenarioDecls)
    \/ EnterNamespace(MaxScenarioDecls)
    \/ ExitNamespace
    \/ Finish
    \/ DerivedClassesQuery
    \/ StartScenarioLinks
    \/ VisitEntity
    \/ AutolinkStep
    \/ AutolinkRecurse
    \/ FinishAutolinks

SpecScenario == Init /\ [][NextScenario]_vars

\* the construction of a tree, every iteration of load_entries recorded
NextLoad ==
    \/ LoadEntry(MaxLoadDecls)
    \/ EnterNamespace(MaxLoadDecls)
    \/ EnterStd(MaxLoadDecls)
    \/ ExitLoadNamespace
    \/ Finish

SpecLoad == Init /\ [][NextLoad]_vars

\* a call of merge_with_namespace
NextMerge ==
    \/ MergeCall
    \/ MergeAssert
    \/ MergeLoop
    \/ MergeReturn

SpecMerge == Init /\ [][NextMerge]_vars

\* the links to the headers and of the types
NextHeader ==
    \/ HeaderLinkQuery
    \/ TypeLinkQuery

SpecHeader == Init /\ [][NextHeader]_vars

\* the construction of a tree of declarations in and out of namespace std
\* and named std or not, and the pages of its items
NextStd ==
    \/ LoadStdChild(MaxLoadDecls)
    \/ EnterNamespace(MaxLoadDecls)
    \/ EnterStd(MaxLoadDecls)
    \/ ExitNamespace
    \/ Finish
    \/ OutputEntity

SpecStd == Init /\ [][NextStd]_vars

\* the construction of a tree, and the flat listings of its namespaces
NextGet ==
    \/ LoadBuildChild(MaxBuildDecls)
    \/ EnterNamespace(MaxBuildDecls)
    \/ EnterNamespaceQ(MaxBuildDecls)
    \/ ExitNamespace
    \/ Finish
    \/ GetQuery

SpecGet == Init /\ [][NextGet]_vars

\* the emoji of the texts
NextEmoji == EmojiQuery

SpecEmoji == Init /\ [][NextEmoji]_vars

\* the construction of a tree of two namespaces at a level, and its
\* navigation
NextNav ==
    \/ LoadBuildChild(MaxBuildDecls)
    \/ EnterNamespace(MaxBuildDecls)
    \/ EnterNamespaceQ(MaxBuildDecls)
    \/ ExitNamespace
    \/ Finish
    \/ NavQuery

SpecNav == Init /\ [][NextNav]_vars

\* the names and the relative URLs of the entities
NextName ==
    \/ FullNameQuery
    \/ RelDocsUrlQuery

SpecName == Init /\ [][NextName]_vars
-----------------------------------------------------------------------------
(* C1: merging two fragments of a namespace whose keys are disjoint yields *)
(* exactly the union of their entries; under a key both hold, with entries *)
(* that are not both namespaces, the merged namespace holds the entry of   *)
(* the fragment merged later (other), not the earlier one.                 *)
C1_MergeUnionLaterWins ==
    merged # None =>
        LET self == merged[1].self
            other == merged[1].other
            result == merged[1].result
        IN  /\ result.ent = self.ent
            /\ Keys(self) \cap Keys(other) = {} =>
                  /\ Keys(result) = Keys(self) \cup Keys(other)
                  /\ \A k \in Keys(self) : result.entries[k] = self.entries[k]
                  /\ \A k \in Keys(other) :
                        result.entries[k] = other.entries[k]
            /\ \A k \in Keys(self) \cap Keys(other) :
                  ~BothNamespaces(self, other, k) =>
                      /\ result.entries[k] = other.entries[k]
                      /\ result.entries[k] # self.entries[k]

\* a merge of two fragments with keys of their own and a key in common
C1_Witness ==
    /\ merged # None
    /\ LET self == merged[1].self
           other == merged[1].other
       IN  /\ Keys(self) \ Keys(other) # {}
           /\ Keys(other) \ Keys(self) # {}
           /\ \E k \in Keys(self) \cap Keys(other) :
                 ~BothNamespaces(self, other, k)

\* a merge of two fragments with disjoint, non-empty sets of keys
C1_WitnessDisjoint ==
    /\ merged # None
    /\ Keys(merged[1].self) # {}
    /\ Keys(merged[1].other) # {}
    /\ Keys(merged[1].self) \cap Keys(merged[1].other) = {}

RECURSIVE IsDeepMerge(_, _, _)
\* `result` holds every entry of `other`, merged into the namespace of its
\* key where self holds one, and the entries of self under the other keys
IsDeepMerge(result, self, other) ==
    /\ result.kind = "Namespace"
    /\ result.ent = self.ent
    /\ Keys(result) = Keys(self) \cup Keys(other)
    /\ \A k \in Keys(result) :
          IF k \notin Keys(other) THEN result.entries[k] = self.entries[k]
          ELSE IF BothNamespaces(self, other, k)
               THEN IsDeepMerge(result.entries[k], self.entries[k],
                                other.entries[k])
               ELSE result.entries[k] = other.entries[k]

\* a path of `a` down to an item that is no namespace
LeafPaths(a) == {p \in Paths(a) : ItemAt(a, p).kind # "Namespace"}

\* a key on the path `p` under which `other` holds an item that replaces
\* what self holds there: the two are not both namespaces
ReplacedOn(self, other, p) ==
    \E n \in 1..Len(p) :
        LET q == SubSeq(p, 1, n)
        IN  /\ q \in Paths(other)
            /\ ~(ItemAt(self, q).kind = "Namespace"
                   /\ ItemAt(other, q).kind = "Namespace")

(* C2: the merge is deep: under a key where self and other both hold a     *)
(* namespace the result holds the merge of the two, under any other key of *)
(* other the entry of other, and the entries of self under the keys other  *)
(* lacks are unchanged; so no item of either fragment is lost at any       *)
(* depth, except an item of self replaced under a key of other.            *)
C2_MergeIsDeep ==
    merged # None =>
        LET self == merged[1].self
            other == merged[1].other
            result == merged[1].result
        IN  /\ IsDeepMerge(result, self, other)
            /\ \A p \in LeafPaths(other) :
                  p \in Paths(result) /\ ItemAt(result, p) = ItemAt(other, p)
            /\ \A p \in LeafPaths(self) :
                  \/ ReplacedOn(self, other, p)
                  \/ p \in Paths(result) /\ ItemAt(result, p) = ItemAt(self, p)

\* a merge that merges a nested namespace of self with one of other, each
\* with an item the other lacks
C2_Witness ==
    /\ merged # None
    /\ LET self == merged[1].self
           other == merged[1].other
       IN  \E k \in Keys(self) \cap Keys(other) :
              /\ BothNamespaces(self, other, k)
              /\ Keys(self.entries[k]) \ Keys(other.entries[k]) # {}
              /\ Keys(other.entries[k]) \ Keys(self.entries[k]) # {}

RECURSIVE EmptyAfterClean(_)
\* a namespace with no entry once its children are cleaned: each of its
\* entries is a namespace that is empty once cleaned
EmptyAfterClean(ns) ==
    \A k \in Keys(ns) :
        ns.entries[k].kind = "Namespace" /\ EmptyAfterClean(ns.entries[k])

(* C3: clean_empty_namespaces removes a namespace below the root if and    *)
(* only if it has no entry once its own children are cleaned, removes no   *)
(* item that is no namespace, and keeps the root, even without entries.    *)
C3_CleanRemovesExactlyEmpty ==
    phase = "done" =>
        LET pre == cleaned[1]
            post == Root
        IN  /\ Len(stack) = 1
            /\ post.kind = "Namespace" /\ post.is_root /\ post.ent = pre.ent
            /\ Paths(post) \subseteq Paths(pre)
            /\ \A p \in Paths(pre) :
                  LET item == ItemAt(pre, p)
                  IN  IF item.kind = "Namespace"
                      THEN /\ (p \notin Paths(post)) <=> EmptyAfterClean(item)
                           /\ p \in Paths(post) =>
                                 /\ ItemAt(post, p).ent = item.ent
                                 /\ Keys(ItemAt(post, p)) # {}
                      ELSE p \in Paths(post) /\ ItemAt(post, p) = item

\* the cleanup removed a namespace that held only an empty namespace, kept
\* an item that is no namespace, and left the root in place
C3_Witness ==
    /\ phase = "done"
    /\ \E p \in Paths(cleaned[1]) :
          /\ Len(p) = 2
          /\ ItemAt(cleaned[1], p).kind = "Namespace"
          /\ SubSeq(p, 1, 1) \notin Paths(Root)
    /\ LeafPaths(Root) # {}

\* the cleanup left a root without entries
C3_WitnessEmptyRoot ==
    /\ phase = "done"
    /\ Keys(cleaned[1]) # {}
    /\ Keys(Root) = {}
(* C6: any two distinct items of the finished tree resolve to distinct     *)
(* URLs, so that no two render tasks write the same output location; also  *)
(* when an item's place in the tree is not that of its semantic parent.    *)
C6_DistinctUrls ==
    phase = "done" =>
        \A p, q \in Paths(Root) :
            p # q => ItemUrl(ItemAt(Root, p)) # ItemUrl(ItemAt(Root, q))
\* the elements of a sequence
Range(seq) == {seq[i] : i \in 1..Len(seq)}

\* some declared base of the class resolves to the symbol of `target`
HasBase(item, target) ==
    \E i \in 1..Len(item.ent.members) :
        /\ item.ent.members[i].kind = "BaseSpecifier"
        /\ IsSome(item.ent.members[i].decl)
        /\ Usr(Unwrap(item.ent.members[i].decl)) = Usr(target.ent)

(* C7: derived_classes(X) returns exactly the class and struct items of    *)
(* the whole finished tree, at any depth, with a declared base whose       *)
(* declaration has the USR of X, whatever the access and the virtual flag  *)
(* of the base; each once, and no item that is no class or struct.         *)
C7_DerivedClassesExact ==
    (out # None /\ out[1].op = "derived_classes") =>
        LET result == out[1].result
            target == out[1].target
        IN  /\ Range(result) =
                  {ItemAt(Root, p) : p \in
                      {q \in Paths(Root) :
                          /\ ItemAt(Root, q).kind \in {"Class", "Struct"}
                          /\ HasBase(ItemAt(Root, q), target)}}
            /\ Cardinality(Range(result)) = Len(result)

\* the derived classes of a class include one below a namespace, and one
\* with a private virtual base; a struct with a field of the class's type
\* is in the tree and is not among them
C7_Witness ==
    /\ out # None /\ out[1].op = "derived_classes"
    /\ \E i \in 1..Len(out[1].result) :
          \E j \in 1..Len(out[1].result[i].ent.members) :
              /\ out[1].result[i].ent.members[j].access = "private"
              /\ out[1].result[i].ent.members[j].virtual
    /\ \E p \in Paths(Root) :
          /\ Len(p) = 2
          /\ ItemAt(Root, p) \in Range(out[1].result)
    /\ \E p \in Paths(Root) :
          /\ ItemAt(Root, p).ent.name = <<"H">>
          /\ ItemAt(Root, p) \notin Range(out[1].result)
\* the URL is one of the generated site: absolute, below its base
IsLocalUrl(url) == url.absolute /\ StartsWith(url.segs, Config.output_url)

\* the text of a URL: its segments, with slashes between
UrlText(url) == Join(url.segs, <<"/">>)

\* the defining file of the entity has a name, and the entity has one
HasFileAndName(e) ==
    /\ e.defFile # None
    /\ PathFileName(Unwrap(e.defFile)) # None
    /\ e.name # <<>>

(* C10, as claimed: for every entity whose fully-qualified name starts     *)
(* with "std", abs_docs_url always yields an external URL built from the   *)
(* name of the defining file and the entity's simple name, and never a URL *)
(* of the generated site.                                                  *)
C10_StdAlwaysExternal ==
    (out # None /\ out[1].op = "abs_docs_url"
       /\ FullName(out[1].target)[1] = sStd) =>
        /\ out[1].result # None
        /\ ~IsLocalUrl(Unwrap(out[1].result))

(* C10, amended: for every entity whose fully-qualified name starts with   *)
(* "std", abs_docs_url yields no URL when the defining file, its file name *)
(* or the entity's simple name is missing, and otherwise the external      *)
(* URL en.cppreference.com/w/cpp/<file name>/<simple name>; it never       *)
(* yields a URL of the generated site.                                     *)
C10_StdExternalOrNone ==
    (out # None /\ out[1].op = "abs_docs_url"
       /\ FullName(out[1].target)[1] = sStd) =>
        LET e == out[1].target
            result == out[1].result
        IN  /\ result = None <=> ~HasFileAndName(e)
            /\ result # None =>
                  /\ UrlText(Unwrap(result)) =
                        sCppReference \o Unwrap(PathFileName(Unwrap(e.defFile)))
                        \o <<"/">> \o e.name
                  /\ ~IsLocalUrl(Unwrap(result))

\* the link of a class of namespace std, defined in a header, is resolved
C10_Witness ==
    /\ out # None /\ out[1].op = "abs_docs_url"
    /\ FullName(out[1].target) = <<sStd, nString>>
    /\ out[1].target.kind = "ClassDecl"
    /\ out[1].result # None

-----------------------------------------------------------------------------
\* the items of the finished tree
TreeItems == {ItemAt(Root, p) : p \in Paths(Root)}

\* the items of the finished tree whose entity has the simple name `word`
Named(word) == {item \in TreeItems : item.ent.name = word}

\* the links to the entities of the simple name `word`
LinksTo(word) ==
    {FmtLink(word, Unwrap(AbsDocsUrl(item.ent, Config))) :
        item \in {it \in Named(word) : AbsDocsUrl(it.ent, Config) # None}}

HasNoLowercaseOnly(word) == \E k \in 1..Len(word) : word[k] \notin Lower

(* C8: a word-token of the prose is rewritten into a link to an entity     *)
(* only if the token equals the simple name of that entity of the tree and *)
(* is not made of lowercase characters only; once fmt_autolinks has        *)
(* returned, every token that is the name of an entity of the tree and is  *)
(* not all lowercase ("Widget") is a link to such an entity, and every     *)
(* token that is all lowercase ("widget") is the word it was, also when an *)
(* entity of that name is in the tree.                                     *)
C8_AutolinkCaseRule ==
    links # None =>
        LET l == links[1]
        IN  /\ \A i \in 1..Len(l.tokens) :
                  l.tokens[i].value # None =>
                      /\ l.tokens[i].raw = l.text[i]
                      /\ HasNoLowercaseOnly(l.text[i])
                      /\ Unwrap(l.tokens[i].value) \in LinksTo(l.text[i])
            /\ (out # None /\ out[1].op = "autolinks") =>
                  \A i \in 1..Len(l.text) :
                      IF HasNoLowercaseOnly(l.text[i])
                         /\ Named(l.text[i]) # {}
                      THEN out[1].result[i] \in LinksTo(l.text[i])
                      ELSE out[1].result[i] = l.text[i]

\* the prose "Widget widget" is linked on a tree that holds an entity
\* Widget and an entity widget: the first word is a link, the second is not
C8_Witness ==
    /\ out # None /\ out[1].op = "autolinks"
    /\ out[1].target = <<nWidget, nwidget>>
    /\ Named(nWidget) # {}
    /\ Named(nwidget) # {}
    /\ out[1].result[1] \in LinksTo(nWidget)
    /\ out[1].result[2] = nwidget

\* the positions, in the order of the visits, of the entities of the
\* simple name `word`
VisitsOf(l, word) ==
    {k \in 1..Len(l.visited) :
        \E item \in Named(word) : item.ent.id = l.visited[k]}

VisitedBefore(l) ==
    {item \in TreeItems :
        \E k \in 1..(Len(l.visited) - 1) : l.visited[k] = item.ent.id}

C9_WitnessFirstPass ==
    /\ links # None
    /\ links[1].cur # None
    /\ LET l == links[1]
           item == l.cur[1]
       IN  /\ item.ent.name = nWidget
           /\ \E other \in Named(nWidget) : other.ent.id # item.ent.id
           /\ l.cursor >= 1
           /\ l.text[1] = nWidget
           /\ l.before[1].value = None
           /\ l.tokens[1].by = item.ent.id

-----------------------------------------------------------------------------
\* the classes, structs and functions of the finished tree
Leaves == {item \in TreeItems : item.kind # "Namespace"}

(* C4: once the build has a result: it is an error if a task has yielded   *)
(* an error or the build of an entry has returned one, and only then; if   *)
(* it is no error, every task has yielded its URL, every class, struct and *)
(* function of the tree has exactly one task, and the result holds the URL *)
(* of each of them, none missing and none added.                           *)
C4_RenderResult ==
    (build # None /\ build[1].result # None) =>
        LET b == build[1]
            r == b.result[1]
            failed == \/ ~b.ret[1].ok
                      \/ \E k \in 1..Len(b.tasks) : b.tasks[k].status = "err"
        IN  /\ failed <=> ~r.ok
            /\ r.ok =>
                  /\ \A k \in 1..Len(b.tasks) : b.tasks[k].status = "ok"
                  /\ \A leaf \in Leaves :
                        Cardinality({k \in 1..Len(b.tasks) :
                                        b.tasks[k].item = leaf}) = 1
                  /\ Len(r.urls) = Cardinality(Leaves)
                  /\ \A leaf \in Leaves :
                        Cardinality({h \in 1..Len(r.urls) :
                                        r.urls[h] = ItemUrl(leaf)})
                        = Cardinality({other \in Leaves :
                                          ItemUrl(other) = ItemUrl(leaf)})

\* a tree of a class, and of a namespace that holds a class and a function,
\* is rendered: the result holds the three URLs
C4_Witness ==
    /\ build # None
    /\ build[1].result # None
    /\ build[1].result[1].ok
    /\ Len(build[1].result[1].urls) = 3
    /\ \E leaf \in Leaves : Len(ItemUrl(leaf).segs) = 2
    /\ \E leaf \in Leaves : Len(ItemUrl(leaf).segs) = 3

\* a task has yielded an error, another its URL: the result is an error
C4_WitnessError ==
    /\ build # None
    /\ build[1].result # None
    /\ ~build[1].result[1].ok
    /\ build[1].ret[1].ok
    /\ \E k \in 1..Len(build[1].tasks) : build[1].tasks[k].status = "err"
    /\ \E k \in 1..Len(build[1].tasks) : build[1].tasks[k].status = "ok"

\* the step is the return of an error from the calls of Namespace::build
ReturnsError ==
    /\ build # None
    /\ build[1].ret = None
    /\ build'[1].ret # None
    /\ ~build'[1].ret[1].ok

\* what a step of a running build does to the tasks
TasksKept ==
    /\ ReturnsError =>
          /\ build'[1].frames = <<>>
          /\ Len(build'[1].tasks) = Len(build[1].tasks)
          /\ \A k \in 1..Len(build[1].tasks) :
                /\ build'[1].tasks[k].status = build[1].tasks[k].status
                /\ ~build'[1].tasks[k].held
    /\ \A k \in 1..Len(build[1].tasks) :
          build'[1].tasks[k].status # build[1].tasks[k].status =>
             /\ build[1].tasks[k].status = "running"
             /\ build'[1].tasks[k].status \in {"ok", "err"}
    /\ (build[1].ret # None /\ ~build[1].ret[1].ok /\ build'[1].result # None)
          => ~build'[1].result[1].ok

-----------------------------------------------------------------------------
\* the kinds of entity that are classified, and the segment of each
CategorySegment(kind) ==
    CASE kind = "Namespace" -> "namespaces"
      [] kind \in {"ClassDecl", "ClassTemplate",
                   "ClassTemplatePartialSpecialization", "StructDecl"}
            -> "classes"
      [] kind \in {"FunctionDecl", "FunctionTemplate"} -> "functions"
      [] OTHER -> ""

\* the text of a sequence of characters
RECURSIVE Text(_)
Text(chars) == IF chars = <<>> THEN "" ELSE Head(chars) \o Text(Tail(chars))

(* C11: rel_docs_url yields no URL exactly when the kind of the entity is  *)
(* not classified; otherwise a relative URL whose first segment is         *)
(* "namespaces" for a namespace, "classes" for a class, a class template   *)
(* and a struct, "functions" for a function, followed by the segments of   *)
(* the fully-qualified name from the root to the leaf and by nothing      *)
(* else: the URL is a function of the category and of that name.           *)
C11_RelativeUrl ==
    (out # None /\ out[1].op = "rel_docs_url") =>
        LET e == out[1].target
            r == out[1].result
        IN  IF CategorySegment(e.kind) = ""
            THEN r = None
            ELSE /\ r # None
                 /\ ~r[1].absolute
                 /\ Len(r[1].segs) = Len(FullName(e)) + 1
                 /\ Text(r[1].segs[1]) = CategorySegment(e.kind)
                 /\ \A i \in 1..Len(FullName(e)) :
                       r[1].segs[i + 1] = FullName(e)[i]

\* the relative URL of a struct Widget of the namespace ns is
\* classes/ns/Widget
C11_Witness ==
    /\ out # None /\ out[1].op = "rel_docs_url"
    /\ out[1].target.kind = "StructDecl"
    /\ out[1].target.sem = <<nsLink, tuLink>>
    /\ out[1].result = Some([absolute |-> FALSE,
                             segs |-> <<sClasses, nNs, nWidget>>])

\* an entity of a kind that is not classified has no relative URL
C11_WitnessNoLink ==
    /\ out # None /\ out[1].op = "rel_docs_url"
    /\ out[1].target.kind = "EnumDecl"
    /\ out[1].result = None

-----------------------------------------------------------------------------
\* a parent at which the walk up the semantic parents stops
IsBoundary(link) ==
    \/ link.kind \in {"TranslationUnit", "UnexposedDecl", "UnexposedAttr",
                      "UnexposedExpr", "UnexposedStmt"}
    \/ /\ Len(link.name) >= 4
       /\ SubSeq(link.name, Len(link.name) - 3, Len(link.name))
              = <<".", "c", "p", "p">>

\* the number of parents below the first boundary
CutLength(chain) ==
    IF \E i \in 1..Len(chain) : IsBoundary(chain[i])
    THEN (CHOOSE i \in 1..Len(chain) :
              /\ IsBoundary(chain[i])
              /\ \A j \in 1..(i - 1) : ~IsBoundary(chain[j])) - 1
    ELSE Len(chain)

\* the ancestors kept, the outermost first: those below the first boundary
\* from the outermost that has a name on
KeptAncestors(chain) ==
    LET n == CutLength(chain)
        outer == [i \in 1..n |-> chain[n + 1 - i]]
        named == {i \in 1..n : outer[i].name # <<>>}
    IN  IF named = {} THEN <<>>
        ELSE LET first == CHOOSE i \in named : \A j \in named : i <= j
             IN  SubSeq(outer, first, n)

SegmentOf(name) == IF name = <<>> THEN <<"_", "a", "n", "o", "n">> ELSE name

(* C19: full_name is the chain of the semantic ancestors from the          *)
(* outermost to the entity, cut at the first parent that is a translation  *)
(* unit or unexposed, without the anonymous ancestors that precede the     *)
(* first named one, and with the entity itself last: it is never empty,    *)
(* and an anonymous ancestor below a named one stays as a segment.         *)
C19_FullyQualifiedName ==
    (out # None /\ out[1].op = "full_name") =>
        LET e == out[1].target
            r == out[1].result
            kept == KeptAncestors(e.sem)
        IN  /\ r # <<>>
            /\ Len(r) = Len(kept) + 1
            /\ r[Len(r)] = SegmentOf(e.name)
            /\ \A i \in 1..Len(kept) : r[i] = SegmentOf(kept[i].name)
            /\ \A i \in 1..CutLength(e.sem) :
                 (\E j \in (i + 1)..CutLength(e.sem) : e.sem[j].name # <<>>)
                    => r[Len(r) - i] = SegmentOf(e.sem[i].name)

\* Widget in an anonymous namespace of ns, itself in an anonymous namespace:
\* the name is ns::_anon::Widget
C19_Witness ==
    /\ out # None /\ out[1].op = "full_name"
    /\ out[1].target.sem = <<anonLink, nsLink, anonLink, tuLink>>
    /\ out[1].target.name = nWidget
    /\ out[1].result = <<nNs, <<"_", "a", "n", "o", "n">>, nWidget>>

\* an entity without a name, all of whose ancestors are anonymous: the name
\* is the one segment _anon
C19_WitnessOnlySelf ==
    /\ out # None /\ out[1].op = "full_name"
    /\ out[1].target.sem = <<anonLink, anonLink, unexposedLink, nsLink>>
    /\ out[1].target.name = <<>>
    /\ out[1].result = << <<"_", "a", "n", "o", "n">> >>

-----------------------------------------------------------------------------
\* the entries of `item` are exactly one class of the name `name`
HoldsOnlyClass(item, name) ==
    /\ DOMAIN item.entries = {name}
    /\ item.entries[name].kind = "Class"

\* the finished tree is that of the scenario: the last merge was that of a
\* fragment of ns holding class Widget, without bases, with a fragment of
\* ns holding class Gadget : public Widget, and the root holds ns alone
ScenarioTree ==
    /\ phase = "done"
    /\ merged # None
    /\ merged[1].self.ent.name = nNs
    /\ merged[1].self.ent.sem = <<tuLink>>
    /\ HoldsOnlyClass(merged[1].self, nWidget)
    /\ merged[1].self.entries[nWidget].ent.members = <<>>
    /\ HoldsOnlyClass(merged[1].other, nGadget)
    /\ DOMAIN Root.entries = {nNs}
    /\ Root.entries[nNs] = merged[1].result

\* the prose of the scenario has been through fmt_autolinks
ScenarioLinked ==
    /\ links # None
    /\ links[1].text = SeeWidgetForDetails
    /\ links[1].cur = None
    /\ links[1].frames = <<>>

(* C12: when namespace ns receives a fragment declaring class ns::Widget   *)
(* without bases and then a fragment declaring class ns::Gadget : public   *)
(* ns::Widget, the finished tree holds both classes under ns, the          *)
(* derived_classes section of Widget is exactly [Gadget], and the          *)
(* autolinks of "See Widget for details" turn the token Widget into a link *)
(* to classes/ns/Widget below the base of the site and leave the other     *)
(* words as they are.                                                      *)
C12_TwoFragments ==
    ScenarioTree =>
        LET ns == Root.entries[nNs]
        IN  /\ DOMAIN ns.entries = {nWidget, nGadget}
            /\ ns.entries[nWidget] = merged[1].self.entries[nWidget]
            /\ ns.entries[nGadget] = merged[1].other.entries[nGadget]
            /\ DerivedClasses(Root, ns.entries[nWidget])
                  = <<ns.entries[nGadget]>>
            /\ (/\ out # None /\ out[1].op = "derived_classes"
                /\ out[1].target = ns.entries[nWidget])
                  => out[1].result = <<ns.entries[nGadget]>>
            /\ ScenarioLinked =>
                  LET r == AnnotationsIntoResult(links[1].tokens)
                  IN  /\ Len(r) = 4
                      /\ r[1] = nSee
                      /\ Text(r[2]) = "[Widget](/docs/classes/ns/Widget)"
                      /\ r[3] = SeeWidgetForDetails[3]
                      /\ r[4] = SeeWidgetForDetails[4]

\* the scenario has run: the tree is merged from the two fragments, the
\* prose is linked and the derived_classes section of Widget is rendered
C12_Witness ==
    /\ ScenarioTree
    /\ ScenarioLinked
    /\ out # None /\ out[1].op = "derived_classes"
    /\ out[1].target = Root.entries[nNs].entries[nWidget]
    /\ Len(out[1].result) = 1

-----------------------------------------------------------------------------
\* the record of an iteration of load_entries on a child that is no
\* namespace the loop enters
Loaded == out # None /\ out[1].op = "load_entries"

\* the iteration recorded has taken no `continue`
Survived == Loaded /\ out[1].rule = "none"

\* the entries but the one under `key`
Without(entries, key) == [k \in DOMAIN entries \ {key} |-> entries[k]]

(* C13: a function child that survives the skips is materialized and       *)
(* replaces the entry its namespace held under its simple name, whatever   *)
(* the kind of that entry, a namespace with its whole subtree included;    *)
(* the other entries stay, so of several functions of one name the last    *)
(* loaded is the one that remains.                                         *)
C13_FunctionReplaces ==
    (Survived /\ out[1].child.kind \in {"FunctionDecl", "FunctionTemplate"})
        => LET c == out[1].child
               a == out[1].after
           IN  /\ c.name \in DOMAIN a
               /\ a[c.name].kind = "Function"
               /\ a[c.name].ent = c
               /\ a[c.name].entries = NoEntries
               /\ Without(a, c.name) = Without(out[1].before, c.name)

\* a function named as a namespace that holds an item has replaced it
C13_Witness ==
    /\ Survived
    /\ out[1].child.kind = "FunctionDecl"
    /\ out[1].child.name \in DOMAIN out[1].before
    /\ out[1].before[out[1].child.name].kind = "Namespace"
    /\ out[1].before[out[1].child.name].entries # NoEntries
    /\ out[1].after[out[1].child.name].kind = "Function"

\* a function has replaced an earlier function of its name
C13_WitnessOverload ==
    /\ Survived
    /\ out[1].child.kind = "FunctionDecl"
    /\ out[1].child.name \in DOMAIN out[1].before
    /\ out[1].before[out[1].child.name].kind = "Function"
    /\ out[1].before[out[1].child.name].ent.id # out[1].child.id
    /\ out[1].after[out[1].child.name].ent.id = out[1].child.id

-----------------------------------------------------------------------------
\* the record of an iteration of load_entries on a namespace it has built
Built == out # None /\ out[1].op = "namespace"

(* C14: a namespace child that survives the skips is built into a subtree  *)
(* of its own; when its namespace holds a Namespace under its name the     *)
(* subtree is merged into it, the entries of the earlier fragments staying *)
(* unless the subtree holds an entry of the same key; when the key is free *)
(* or holds an item that is no namespace, the subtree is inserted in its   *)
(* place; the entries under the other keys stay.                           *)
C14_NamespaceMergesOrInserts ==
    Built =>
        LET entry == out[1].entry
            key == entry.ent.name
            b == out[1].before
            a == out[1].after
        IN  /\ key \in DOMAIN a
            /\ a[key].kind = "Namespace"
            /\ Without(a, key) = Without(b, key)
            /\ IF key \in DOMAIN b /\ b[key].kind = "Namespace"
               THEN /\ a[key].ent = b[key].ent
                    /\ DOMAIN a[key].entries
                          = DOMAIN b[key].entries \cup DOMAIN entry.entries
                    /\ \A k \in DOMAIN b[key].entries \ DOMAIN entry.entries :
                          a[key].entries[k] = b[key].entries[k]
                    /\ \A k \in DOMAIN entry.entries :
                          (\/ k \notin DOMAIN b[key].entries
                           \/ b[key].entries[k].kind # "Namespace"
                           \/ entry.entries[k].kind # "Namespace")
                             => a[key].entries[k] = entry.entries[k]
               ELSE a[key] = entry

\* a namespace has been inserted in the place of a class of its name
C14_Witness ==
    /\ Built
    /\ out[1].entry.ent.name \in DOMAIN out[1].before
    /\ out[1].before[out[1].entry.ent.name].kind = "Class"
    /\ out[1].after[out[1].entry.ent.name] = out[1].entry

\* a namespace has been merged into an earlier fragment, whose entry stays
C14_WitnessMerge ==
    /\ Built
    /\ out[1].entry.ent.name \in DOMAIN out[1].before
    /\ out[1].before[out[1].entry.ent.name].kind = "Namespace"
    /\ out[1].before[out[1].entry.ent.name].entries # NoEntries
    /\ out[1].after[out[1].entry.ent.name].entries
          = out[1].before[out[1].entry.ent.name].entries
    /\ out[1].after[out[1].entry.ent.name].ent.id # out[1].entry.ent.id

-----------------------------------------------------------------------------
ClassKinds ==
    {"ClassDecl", "ClassTemplate", "ClassTemplatePartialSpecialization",
     "StructDecl"}

(* C15: an iteration of load_entries on a class or struct child that is no *)
(* definition leaves the entries of the namespace as they were: it makes   *)
(* no entry and removes or replaces none, so a definition, a function or a *)
(* namespace of the name of the child stays.                               *)
C15_ForwardDeclarationIgnored ==
    (Loaded /\ out[1].child.kind \in ClassKinds /\ ~out[1].child.def)
        => out[1].after = out[1].before

\* a forward declaration that took no `continue` has left the class
\* defined under its name where it was
C15_Witness ==
    /\ Survived
    /\ out[1].child.kind \in ClassKinds /\ ~out[1].child.def
    /\ out[1].child.name \in DOMAIN out[1].before
    /\ out[1].before[out[1].child.name].kind = "Class"
    /\ out[1].after = out[1].before

\* a forward declaration has left the namespace of its name where it was
C15_WitnessNamespace ==
    /\ Survived
    /\ out[1].child.kind = "StructDecl" /\ ~out[1].child.def
    /\ out[1].child.name \in DOMAIN out[1].before
    /\ out[1].before[out[1].child.name].kind = "Namespace"
    /\ out[1].after = out[1].before

-----------------------------------------------------------------------------
\* some pattern of the list on the full names matches the entity
FullListMatches(e) ==
    \E i \in 1..Len(Unwrap(Config.ignore).patterns_full) :
        Contains(Join(FullName(e), ColonColon),
                 Unwrap(Config.ignore).patterns_full[i])

\* some pattern of the list on the simple names matches the entity
NameListMatches(e) ==
    \E i \in 1..Len(Unwrap(Config.ignore).patterns_name) :
        Contains(e.name, Unwrap(Config.ignore).patterns_name[i])

\* the name of the entity is one the compiler makes up
Synthesized(e) ==
    \/ Contains(e.name, sDeductionGuideFor)
    \/ Contains(e.name, sUnnamed)

UnderStd(e) == StartsWith(Join(FullName(e), ColonColon), sStdColons)

WeirdName(e) == e.name # <<>> /\ e.name[1] \in {"(", ")", "<", ">", "[", "]"}

\* the child has passed the skips that come before the ignore rules
PassedEarlierSkips(e, lib) ==
    /\ e.name # <<>>
    /\ e.sys => lib # None
    /\ ~UnderStd(e)
    /\ ~Synthesized(e)
    /\ ~WeirdName(e)

(* C16: a child that has passed the earlier skips is dropped exactly when  *)
(* a pattern of the list on the full names matches its full name or a      *)
(* pattern of the list on the simple names matches its simple name; either *)
(* list is enough, the list on the full names is consulted first, and a    *)
(* namespace that is dropped is not built: no entry is made for it, and no *)
(* namespace that is built is matched.                                     *)
C16_IgnoreRules ==
    /\ (Loaded /\ PassedEarlierSkips(out[1].child, out[1].lib)) =>
          LET c == out[1].child
              dropped == out[1].rule \in {"patterns_full", "patterns_name"}
          IN  /\ dropped <=> (FullListMatches(c) \/ NameListMatches(c))
              /\ FullListMatches(c) => out[1].rule = "patterns_full"
              /\ dropped <=> out[1].rule # "none"
              /\ dropped => out[1].after = out[1].before
              /\ (~dropped /\ c.kind = "FunctionDecl") =>
                    /\ c.name \in DOMAIN out[1].after
                    /\ out[1].after[c.name].ent = c
    /\ Built => /\ ~FullListMatches(out[1].child)
                /\ ~NameListMatches(out[1].child)
    /\ \A i \in 1..Len(stack) :
          \A p \in Paths(stack[i]) :
              /\ ~FullListMatches(ItemAt(stack[i], p).ent)
              /\ ~NameListMatches(ItemAt(stack[i], p).ent)

\* a namespace of ns that the list on the full names matches, and the list
\* on the simple names does not, is dropped
C16_Witness ==
    /\ Loaded
    /\ PassedEarlierSkips(out[1].child, out[1].lib)
    /\ out[1].child.kind = "Namespace"
    /\ out[1].rule = "patterns_full"
    /\ ~NameListMatches(out[1].child)
    /\ out[1].after = out[1].before

\* a function that the list on the simple names matches, and the list on
\* the full names does not, is dropped
C16_WitnessNameList ==
    /\ Loaded
    /\ PassedEarlierSkips(out[1].child, out[1].lib)
    /\ out[1].rule = "patterns_name"
    /\ ~FullListMatches(out[1].child)

\* a function that both lists match is dropped by the list on the full
\* names
C16_WitnessBothLists ==
    /\ Loaded
    /\ PassedEarlierSkips(out[1].child, out[1].lib)
    /\ out[1].rule = "patterns_full"
    /\ NameListMatches(out[1].child)

\* a function named x outside of ns is matched by no list and is loaded
C16_WitnessKept ==
    /\ Survived
    /\ out[1].child.name = <<"x">>
    /\ <<"x">> \in DOMAIN out[1].after

-----------------------------------------------------------------------------
(* C17: no item of the finished tree is an entity without a name, an       *)
(* entity whose full name lies under std, an entity whose simple name      *)
(* contains "deduction guide for" or "unnamed ", an entity whose simple    *)
(* name begins with one of ( ) < > [ ], an entity an ignore rule matches,  *)
(* or a class or struct that is a forward declaration only; namespace std  *)
(* itself, which holds nothing, is no item of it either.                   *)
C17_FinishedTreeFiltered ==
    phase = "done" =>
        \A p \in Paths(Root) :
            LET e == ItemAt(Root, p).ent
            IN  /\ e.name # <<>>
                /\ ~UnderStd(e)
                /\ ~Synthesized(e)
                /\ ~WeirdName(e)
                /\ ~FullListMatches(e)
                /\ ~NameListMatches(e)
                /\ e.kind \in ClassKinds => e.def
                /\ ~(e.kind = "Namespace" /\ e.name = sStd)

\* a tree is finished that holds an item in a namespace, and the last
\* child its construction looked at bears a name that begins with one of
\* the six characters
C17_Witness ==
    /\ phase = "done"
    /\ \E p \in Paths(Root) : Len(p) = 2
    /\ Loaded
    /\ out[1].rule = "weird"

\* a tree is finished that holds an item, and held namespace std, in
\* which the loop had looked at a child, before it was cleaned
C17_WitnessStd ==
    /\ phase = "done"
    /\ Paths(Root) # {}
    /\ cleaned # None
    /\ sStd \in DOMAIN cleaned[1].entries
    /\ cleaned[1].entries[sStd].ent.id = 2
    /\ \A k \in DOMAIN Root.entries : Root.entries[k].ent.id = 1
    /\ count = 3
    /\ Built

-----------------------------------------------------------------------------
\* the configured libraries whose pattern the path of the file of the
\* entity contains, by their place in the configuration
MatchingLibs(e) ==
    IF e.file = None THEN {}
    ELSE {i \in 1..Len(Config.external_libs) :
             \E k \in 0..Len(e.file[1]) :
                 /\ k + Len(Config.external_libs[i].pattern) <= Len(e.file[1])
                 /\ SubSeq(e.file[1], k + 1,
                           k + Len(Config.external_libs[i].pattern))
                       = Config.external_libs[i].pattern}

(* C18: an entity belongs to an external library exactly when it lies in   *)
(* a system header whose path contains the pattern of a configured         *)
(* library, and the library it is given is the first of the configuration  *)
(* whose pattern the path contains; an entity that is not in a system      *)
(* header has no library.  A named child of a system header is skipped by  *)
(* load_entries as external exactly when it has no library, and its        *)
(* entries then stay as they were.                                         *)
C18_ExternalLibrary ==
    Loaded =>
        LET c == out[1].child
            lib == out[1].lib
            hits == MatchingLibs(c)
        IN  /\ lib # None <=> (c.sys /\ hits # {})
            /\ lib # None =>
                  \E i \in hits : /\ lib[1] = Config.external_libs[i]
                                  /\ \A j \in hits : i <= j
            /\ ~c.sys => out[1].rule # "external"
            /\ (c.sys /\ c.name # <<>>) =>
                  /\ out[1].rule = "external" <=> lib = None
                  /\ lib = None => out[1].after = out[1].before
                  /\ (lib # None /\ Survived /\ c.kind = "FunctionDecl") =>
                        /\ c.name \in DOMAIN out[1].after
                        /\ out[1].after[c.name].ent = c

\* a function of a system header whose path contains the patterns of both
\* libraries, that of the second first, is of the first library and is
\* loaded
C18_Witness ==
    /\ Survived
    /\ out[1].child.sys
    /\ Cardinality(MatchingLibs(out[1].child)) = 2
    /\ out[1].lib = Some(Config.external_libs[1])
    /\ out[1].after[out[1].child.name].ent = out[1].child

\* a function of a system header of no library is skipped
C18_WitnessSkipped ==
    /\ Loaded
    /\ out[1].child.sys
    /\ out[1].child.file # None
    /\ out[1].lib = None
    /\ out[1].rule = "external"

\* a function of a header of the project whose path contains the pattern
\* of a library has no library, and is loaded
C18_WitnessProject ==
    /\ Survived
    /\ ~out[1].child.sys
    /\ MatchingLibs(out[1].child) # {}
    /\ out[1].lib = None

-----------------------------------------------------------------------------
\* a call of merge_with_namespace on namespaces of two names
MismatchedMerge ==
    /\ out # None /\ out[1].op = "merge"
    /\ out[1].self.ent.name # out[1].other.ent.name

(* C20: a call of merge_with_namespace on namespaces whose names differ    *)
(* panics at its assertion before an entry of self is changed: it never    *)
(* reaches its loop, never returns, and self is as it was when the program *)
(* panics.                                                                 *)
C20_MergeAbortsOnNameMismatch ==
    MismatchedMerge =>
        /\ out[1].status \in {"called", "panicked"}
        /\ out[1].now = out[1].self
        /\ out[1].todo = DOMAIN out[1].other.entries

\* the call has panicked on namespaces of two names that both hold entries
C20_Witness ==
    /\ MismatchedMerge
    /\ out[1].status = "panicked"
    /\ out[1].self.entries # NoEntries
    /\ out[1].other.entries # NoEntries
    /\ DOMAIN out[1].self.entries \cap DOMAIN out[1].other.entries # {}

\* a call on namespaces of one name returns, self merged
C20_WitnessSameName ==
    /\ out # None /\ out[1].op = "merge"
    /\ out[1].status = "returned"
    /\ out[1].now = MergeWithNamespace(out[1].self, out[1].other)
    /\ out[1].now # out[1].self

-----------------------------------------------------------------------------
\* the tasks of a build that render the item
TasksFor(item) ==
    {k \in 1..Len(build[1].tasks) : build[1].tasks[k].item = item}

(* C21 as stated: once the build has yielded the URLs, every item of the   *)
(* finished tree, the namespaces included, has exactly one task.           *)
C21_OneTaskPerNode ==
    (build # None /\ build[1].result # None /\ build[1].result[1].ok) =>
        \A item \in TreeItems : Cardinality(TasksFor(item)) = 1

(* C21: during a build every task renders a class, a struct or a function  *)
(* of the finished tree and no two tasks render the same item, so that no  *)
(* item is scheduled twice and a failed task is not tried again; a         *)
(* namespace has no task of its own; once build has returned Ok on the     *)
(* root, every class, struct and function has exactly one task.            *)
C21_OneTaskPerLeaf ==
    build # None =>
        /\ \A k \in 1..Len(build[1].tasks) : build[1].tasks[k].item \in Leaves
        /\ \A item \in TreeItems : Cardinality(TasksFor(item)) <= 1
        /\ \A item \in TreeItems \ Leaves : TasksFor(item) = {}
        /\ (build[1].ret # None /\ build[1].ret[1].ok) =>
              \A leaf \in Leaves : Cardinality(TasksFor(leaf)) = 1

\* the build has yielded the URLs of a tree with a namespace: the class in
\* the namespace has its task, the namespace has none
C21_Witness ==
    /\ build # None
    /\ build[1].result # None
    /\ build[1].result[1].ok
    /\ \E ns \in TreeItems \ Leaves :
          /\ TasksFor(ns) = {}
          /\ \E k \in DOMAIN ns.entries :
                Cardinality(TasksFor(ns.entries[k])) = 1

\* a task has failed and the build with it: the item of the task has that
\* one task and no other
C21_WitnessFailed ==
    /\ build # None
    /\ build[1].result # None
    /\ ~build[1].result[1].ok
    /\ \E k \in 1..Len(build[1].tasks) :
          /\ build[1].tasks[k].status = "err"
          /\ TasksFor(build[1].tasks[k].item) = {k}

-----------------------------------------------------------------------------
\* the record of a call of fmt_header_link
HeaderLinked == out # None /\ out[1].op = "fmt_header_link"

\* the record of a call of fmt_type
TypeLinked == out # None /\ out[1].op = "fmt_type"

\* the first segment of the full name of the entity is std
FirstSegmentStd(e) == Text(FullName(e)[1]) = "std"

C22_WitnessNoIncludePath ==
    /\ HeaderLinked
    /\ out[1].github # None
    /\ out[1].include = None
    /\ out[1].result.placeholder

\* a link to a header, with its href
C22_WitnessLinked ==
    /\ HeaderLinked
    /\ ~out[1].result.placeholder
    /\ out[1].result.href # None
    /\ ~out[1].target.sys

\* the declaration of a type is of a kind that is not classified: the
\* link is disabled
C22_WitnessType ==
    /\ TypeLinked
    /\ out[1].target # None
    /\ out[1].target[1].kind = "EnumDecl"
    /\ ~FirstSegmentStd(out[1].target[1])
    /\ out[1].result.disabled
    /\ out[1].result.href = None

-----------------------------------------------------------------------------
RECURSIVE NavMirrors(_, _)
\* the NavItem `nav` is that of the item: of its type and name, its items
\* those of the entries of the item, each once, the namespaces before the
\* others and each of the two groups in the ascending order of the names
NavMirrors(item, nav) ==
    IF item.kind # "Namespace"
    THEN nav.type = "link" /\ nav.name = Some(item.ent.name)
    ELSE /\ nav.type = IF item.is_root THEN "root" ELSE "dir"
         /\ item.is_root => nav.name = None
         /\ ~item.is_root => nav.name = Some(item.ent.name)
         /\ Len(nav.items) = Cardinality(DOMAIN item.entries)
         /\ \A k \in DOMAIN item.entries :
               Cardinality({i \in 1..Len(nav.items) :
                               /\ nav.items[i].name = Some(k)
                               /\ NavMirrors(item.entries[k], nav.items[i])})
                  = 1
         /\ \A i, j \in 1..Len(nav.items) :
               i < j =>
                  /\ nav.items[j].type = "dir" => nav.items[i].type = "dir"
                  /\ (nav.items[i].type = "dir") = (nav.items[j].type = "dir")
                        => StrLess(nav.items[i].name[1], nav.items[j].name[1])

(* C23: the nav entry of a namespace lists each of its entries once, the   *)
(* namespaces before the classes, structs and functions, and each of the   *)
(* two groups in the ascending order of the simple names; the root gives a *)
(* Root node, every other namespace a Dir node of its name.                *)
C23_NavigationOrder ==
    (out # None /\ out[1].op = "nav") => NavMirrors(Root, out[1].result)

\* the navigation of a tree whose root holds the namespace ns, the class
\* Widget and the function f: ns, Widget, f, though Widget < f < ns by the
\* names
C23_Witness ==
    /\ out # None /\ out[1].op = "nav"
    /\ out[1].result.type = "root"
    /\ Len(out[1].result.items) = 3
    /\ out[1].result.items[1].type = "dir"
    /\ out[1].result.items[1].name = Some(nNs)
    /\ out[1].result.items[2].type = "link"
    /\ out[1].result.items[2].name = Some(nWidget)
    /\ out[1].result.items[3].type = "link"
    /\ out[1].result.items[3].name = Some(nF)

\* the navigation of a tree whose root holds the namespaces ns and q
C23_WitnessNamespaces ==
    /\ out # None /\ out[1].op = "nav"
    /\ Len(out[1].result.items) = 2
    /\ out[1].result.items[1].type = "dir"
    /\ out[1].result.items[1].name = Some(nNs)
    /\ out[1].result.items[2].type = "dir"
    /\ out[1].result.items[2].name = Some(<<"q">>)

\* a namespace that holds a class and a function: Widget before f
C23_WitnessLeaves ==
    /\ out # None /\ out[1].op = "nav"
    /\ \E i \in 1..Len(out[1].result.items) :
          /\ out[1].result.items[i].type = "dir"
          /\ Len(out[1].result.items[i].items) = 2
          /\ out[1].result.items[i].items[1].name = Some(nWidget)
          /\ out[1].result.items[i].items[2].name = Some(nF)

-----------------------------------------------------------------------------
\* the places below the root of a tree where the namespace the last merge
\* made is
MergedPlaces(tree) ==
    {p \in Paths(tree) : ItemAt(tree, p) = merged[1].result}

\* the last merge had a fragment with an item below it that is no namespace
\* and that the merge did not replace, and no later declaration has replaced
\* the namespace it made
MergedHoldsItem ==
    /\ merged # None
    /\ \/ LeafPaths(merged[1].other) # {}
       \/ \E p \in LeafPaths(merged[1].self) :
             ~ReplacedOn(merged[1].self, merged[1].other, p)
    /\ MergedPlaces(cleaned[1]) # {}

(* C24: clean_empty_namespaces runs once, when load_entries of the root    *)
(* has returned and every fragment is merged: no namespace below the root  *)
(* of the finished tree is without entries, and a namespace merged of      *)
(* fragments of which one holds an item that is not replaced is in the     *)
(* finished tree, holding an item, whether the other fragment, the earlier *)
(* or the later, was empty or not.                                         *)
C24_CleanupAfterMerge ==
    /\ phase = "load" => cleaned = None
    /\ phase = "done" =>
          /\ \A p \in Paths(Root) :
                (p # <<>> /\ ItemAt(Root, p).kind = "Namespace")
                   => Keys(ItemAt(Root, p)) # {}
          /\ MergedHoldsItem =>
                \A p \in MergedPlaces(cleaned[1]) :
                   /\ p \in Paths(Root)
                   /\ ItemAt(Root, p).kind = "Namespace"
                   /\ ItemAt(Root, p).ent = merged[1].self.ent
                   /\ LeafPaths(ItemAt(Root, p)) # {}

\* a finished tree that holds a namespace merged of a fragment with an item
\* and a later fragment without entries
C24_Witness ==
    /\ phase = "done"
    /\ MergedHoldsItem
    /\ Keys(merged[1].other) = {}
    /\ MergedPlaces(cleaned[1]) \cap Paths(Root) # {}

\* a finished tree that holds a namespace merged of a fragment without
\* entries and a later fragment with an item
C24_WitnessEarlierEmpty ==
    /\ phase = "done"
    /\ MergedHoldsItem
    /\ Keys(merged[1].self) = {}
    /\ MergedPlaces(cleaned[1]) \cap Paths(Root) # {}

\* a namespace merged of two fragments without entries is not in the
\* finished tree
C24_WitnessBothEmpty ==
    /\ phase = "done"
    /\ merged # None
    /\ Keys(merged[1].self) = {} /\ Keys(merged[1].other) = {}
    /\ MergedPlaces(cleaned[1]) # {}
    /\ MergedPlaces(cleaned[1]) \cap Paths(Root) = {}

-----------------------------------------------------------------------------
RECURSIVE KeysAreNames(_)
\* every entry below the item is under the key that is the name of its
\* entity
KeysAreNames(item) ==
    \A k \in Keys(item) :
        /\ item.entries[k].ent.name = k
        /\ KeysAreNames(item.entries[k])

(* C25: the assert_eq! of merge_with_namespace never fails while the tree  *)
(* is built: in every state every entry of every namespace, loaded or      *)
(* being loaded, is under the key that is the simple name of its item, and *)
(* every merge, the nested ones included, is of two namespaces of one      *)
(* name.                                                                   *)
C25_MergeAssertHolds ==
    /\ phase # "panic"
    /\ \A i \in 1..Len(stack) : KeysAreNames(stack[i])
    /\ merged # None =>
          /\ merged[1].self.ent.name = merged[1].other.ent.name
          /\ MergeAssertOk(merged[1].self, merged[1].other)

\* a merge of two fragments that both hold a namespace under one key, so
\* that merge_with_namespace has called itself, while the tree is built
C25_Witness ==
    /\ phase = "load"
    /\ merged # None
    /\ \E k \in Keys(merged[1].other) :
          /\ BothNamespaces(merged[1].self, merged[1].other, k)
          /\ merged[1].result.entries[k].ent.name = k

-----------------------------------------------------------------------------
(* C26: the unreachable! of github_url is not reached for the items of the *)
(* tree: no class, struct or function of the finished tree has a full name *)
(* of first segment std, and the header link of no rendered item ends the  *)
(* program.                                                                *)
C26_StdNeverLinked ==
    /\ phase # "panic"
    /\ phase = "done" =>
          \A p \in LeafPaths(Root) : ~IsStdItem(ItemAt(Root, p).ent)

\* no item of the finished tree is declared in namespace std: the full name
\* of each is its own name or begins with the name of another namespace
C26_NothingOfNamespaceStd ==
    phase = "done" =>
        \A p \in LeafPaths(Root) :
            LET name == FullName(ItemAt(Root, p).ent)
            IN  Len(name) > 1 => name[1] # sStd

\* the page of a struct std declared at file scope is rendered: github_url
\* reaches its unreachable!
C26_WitnessStdStruct ==
    /\ phase = "panic"
    /\ out # None /\ out[1].op = "output_entity"
    /\ out[1].target.kind = "StructDecl"
    /\ FullName(out[1].target) = <<sStd>>
    /\ out[1].result.fatal

\* namespace std was entered and a declaration of it looked at, and the
\* finished tree holds none of it
C26_WitnessNamespaceStd ==
    /\ phase = "done"
    /\ sStd \in Keys(cleaned[1])
    /\ cleaned[1].entries[sStd].kind = "Namespace"
    /\ cleaned[1].entries[sStd].ent.id < count
    /\ sStd \notin Keys(Root)

-----------------------------------------------------------------------------
\* the items below the namespace, at any depth, of a category of `cats`
Matching(ns, cats) ==
    {ItemAt(ns, q) : q \in {q \in Paths(ns) : Category(ItemAt(ns, q)) \in cats}}

(* C27: Namespace::get yields every item below the namespace it is called  *)
(* on, at any depth, that the matcher accepts, each once, and nothing      *)
(* else: a namespace below is tested itself and its entries are looked at  *)
(* whether it is accepted or not, and the namespace get is called on is    *)
(* not in the result.                                                      *)
C27_GetListsMatchingBelow ==
    (out # None /\ out[1].op = "get") =>
        LET self == out[1].self
            cats == out[1].cats
            result == out[1].result
        IN  /\ \A i \in 1..Len(result) : result[i] \in Matching(self, cats)
            /\ \A item \in Matching(self, cats) :
                  Cardinality({i \in 1..Len(result) : result[i] = item}) = 1
            /\ \A i \in 1..Len(result) : result[i] # self

\* a get for the namespaces and the classes on a root that holds a namespace
\* with a class: both are listed, the root is not
C27_Witness ==
    /\ out # None /\ out[1].op = "get"
    /\ out[1].self.is_root
    /\ out[1].cats = {"namespace", "class"}
    /\ \E i, j \in 1..Len(out[1].result) :
          /\ out[1].result[i].kind = "Namespace"
          /\ out[1].result[j].kind = "Class"
          /\ out[1].result[j] \in Range(Values(out[1].result[i].entries))

\* a get for the functions finds one two namespaces down, and lists neither
\* namespace
C27_WitnessDeep ==
    /\ out # None /\ out[1].op = "get"
    /\ out[1].cats = {"function"}
    /\ \E q \in Paths(out[1].self) :
          /\ Len(q) = 3
          /\ ItemAt(out[1].self, q) \in Range(out[1].result)
    /\ \A i \in 1..Len(out[1].result) : out[1].result[i].kind = "Function"

-----------------------------------------------------------------------------
\* the characters of a shortcode
ShortcodeChars == {"a", "b", "_"}

\* the lengths of the shortcodes that begin the text `rest`, which follows
\* a colon: a run of characters of shortcodes that names an emoji and that a
\* colon follows or, if `closed` is false, that the end of the text follows
ShortcodeLengths(rest, closed) ==
    {n \in 0..Len(rest) :
        /\ \A k \in 1..n : rest[k] \in ShortcodeChars
        /\ \/ n < Len(rest) /\ rest[n + 1] = ":"
           \/ ~closed /\ n = Len(rest)
        /\ GetByShortcode(SubSeq(rest, 1, n)) # None}

RECURSIVE Replaced(_, _)
\* the text with its shortcodes replaced from the left, and every other
\* character copied
Replaced(text, closed) ==
    IF text = <<>> THEN <<>>
    ELSE IF Head(text) = ":" /\ ShortcodeLengths(Tail(text), closed) # {}
    THEN LET n == CHOOSE n \in ShortcodeLengths(Tail(text), closed) : TRUE
         IN  <<Unwrap(GetByShortcode(SubSeq(text, 2, n + 1)))>>
             \o Replaced(SubSeq(text, n + 3, Len(text)), closed)
    ELSE <<Head(text)>> \o Replaced(Tail(text), closed)

(* C28, as stated: fmt_emoji replaces a shortcode only if a colon is on    *)
(* both of its sides and it names an emoji, and copies every other         *)
(* character, a colon that begins a shortcode the text ends in included.   *)
C28_OnlyEnclosedShortcodes ==
    (out # None /\ out[1].op = "fmt_emoji")
       => out[1].result = Replaced(out[1].text, TRUE)

(* C28, amended: fmt_emoji replaces a colon, a run of letters, digits and  *)
(* underscores that names an emoji and the colon after it, and also a      *)
(* colon and such a run that the text ends in, without a colon after it;   *)
(* it copies every other character in order.                               *)
C28_EnclosedOrAtEnd ==
    (out # None /\ out[1].op = "fmt_emoji")
       => out[1].result = Replaced(out[1].text, FALSE)

\* a text that ends in a colon and a shortcode, without a colon after it:
\* the emoji is in the place of the two
C28_Witness ==
    /\ out # None /\ out[1].op = "fmt_emoji"
    /\ out[1].text = <<"b", ":", "a", "b">>
    /\ out[1].result = <<"b", "*ab">>

\* a shortcode between colons is replaced, and a colon before a name that
\* is no shortcode is copied
C28_WitnessEnclosed ==
    /\ out # None /\ out[1].op = "fmt_emoji"
    /\ out[1].text = <<":", "b", ":", "a", ":">>
    /\ out[1].result = <<":", "b", "*a">>

\* a colon before a shortcode that a space follows is copied
C28_WitnessCopied ==
    /\ out # None /\ out[1].op = "fmt_emoji"
    /\ out[1].text = <<":", "a", " ", ":">>
    /\ out[1].result = out[1].text
=============================================================================
